---- MODULE Spec2Model ----
(***************************************************************************)
(* bw-tui: the session cache of the Bitwarden CLI wrapper                  *)
(* (src/bw_tui/bitwarden.py) and the interactive loop of the curses UI     *)
(* (src/bw_tui/ui.py).                                                     *)
(*                                                                         *)
(* Text is a sequence of character codes (Python's ord), so that chr, ord, *)
(* str.lower, str.strip and the JSON string escapes are computed and not   *)
(* assumed.  Time is time.time() in whole seconds.                         *)
(***************************************************************************)
EXTENDS Integers, Sequences, FiniteSets, TLC

VARIABLES
    file,         \* content of SESSION_FILE (~/.bw-tui-session.json)
    session_key,  \* BitwardenCLI._session_key
    issuedAt,     \* history: the timestamp stored with the cached key
    now,          \* time.time()
    ticks,        \* number of clock advances so far
    constructed,  \* a BitwardenCLI object exists (its __init__ returned)
    ret,          \* what the last call returned or raised
    log,          \* the log records the last call emitted, in order
    spawned,      \* the subprocesses the last call ran, in order
    \* a _save_session in progress, system call by system call
    wpc,          \* "idle", "built", "opened", "done"
    wdata,        \* session_data: [tok, ts]
    wlinked,      \* the file opened for writing is still the one at the path
    \* a second bw-tui process constructing its client meanwhile
    rpc,          \* "start", "open", "cleanup", "done"
    rseen,        \* what its json.load read
    peer_key,     \* its _session_key
    \* MainWindow
    ui_pc,        \* "init", "unlock" (in _unlock_vault), "main", "exited"
    exit_exc,     \* the exception that ended run(), "none" if it returned
    mode,         \* "browse", "search", "unlock"
    search_query,
    items,
    filtered_items,
    current_selection,
    typed_password, \* the local `password` of _unlock_vault
    getch,        \* the key the last getch() returned
    status,       \* status_message, status_color, status_message_time
    shown,        \* the _show_status calls of the last key
    clip,         \* the clipboard mechanisms the last key tried, in order
    redrawn,      \* the last key ended with _draw_ui
    \* the process
    os_environ,   \* os.environ.get("BW_SESSION")
    printed       \* the lines printed to standard output

clientVars == <<file, session_key, issuedAt, now, ticks, constructed, ret,
                log, spawned>>
saveVars == <<wpc, wdata, wlinked>>
peerVars == <<rpc, rseen, peer_key>>

uiVars == <<ui_pc, exit_exc, mode, search_query, items, filtered_items,
            current_selection, typed_password, getch, status, shown, clip,
            redrawn>>

procVars == <<os_environ, printed>>

vars == <<clientVars, saveVars, peerVars, uiVars, procVars>>

(***************************************************************************)
(* Bounds of the model.                                                    *)
(***************************************************************************)
MaxOutLen == 1      \* longest stdout of `bw unlock --raw`
MaxTicks == 1       \* clock advances in one behaviour

(***************************************************************************)
(* Program constants.                                                      *)
(***************************************************************************)
SESSION_TIMEOUT == 10 * 60

CH_QUOTE == 34
CH_BACKSLASH == 92
CH_NEWLINE == 10
CH_SPACE == 32
CH_LOWER_A == 97
CH_LOWER_N == 110
CH_LOWER_P == 112
CH_UPPER_E == 69

\* the clock of a process started long after the epoch
StartTime == 2 * SESSION_TIMEOUT

(***************************************************************************)
(* Optional values (Python's None or a value).                             *)
(***************************************************************************)
None == [some |-> FALSE, val |-> <<>>]
Some(v) == [some |-> TRUE, val |-> v]

\* Python truthiness of an Optional[str]
Truthy(o) == o.some /\ o.val # <<>>

(***************************************************************************)
(* Text.                                                                   *)
(***************************************************************************)
RECURSIVE SeqsUpTo(_, _)
SeqsUpTo(S, n) ==
    IF n = 0 THEN {<<>>}
    ELSE LET shorter == SeqsUpTo(S, n - 1)
         IN shorter \cup {Append(s, c) : s \in shorter, c \in S}

Whitespace == {CH_SPACE, CH_NEWLINE, 9, 11, 12, 13}

RECURSIVE LStrip(_)
LStrip(s) ==
    IF s # <<>> /\ Head(s) \in Whitespace THEN LStrip(Tail(s)) ELSE s

RECURSIVE RStrip(_)
RStrip(s) ==
    IF s # <<>> /\ s[Len(s)] \in Whitespace
    THEN RStrip(SubSeq(s, 1, Len(s) - 1))
    ELSE s

\* str.strip()
Strip(s) == RStrip(LStrip(s))

(***************************************************************************)
(* JSON string escapes, as json.dump writes them and json.load reads them. *)
(***************************************************************************)
EscapeChar(c) ==
    IF c = CH_QUOTE THEN <<CH_BACKSLASH, CH_QUOTE>>
    ELSE IF c = CH_BACKSLASH THEN <<CH_BACKSLASH, CH_BACKSLASH>>
    ELSE IF c = CH_NEWLINE THEN <<CH_BACKSLASH, CH_LOWER_N>>
    ELSE <<c>>

RECURSIVE JsonEscapeNoQuote(_)
JsonEscapeNoQuote(s) ==
    IF s = <<>> THEN <<>>
    ELSE (IF Head(s) = CH_QUOTE THEN <<CH_QUOTE>> ELSE EscapeChar(Head(s)))
         \o JsonEscapeNoQuote(Tail(s))

RECURSIVE JsonEscape(_)
JsonEscape(s) ==
    IF s = <<>> THEN <<>> ELSE EscapeChar(Head(s)) \o JsonEscape(Tail(s))

\* The body of a JSON string literal decoded: [ok, val]; ok is FALSE where
\* json.load raises JSONDecodeError (a bare quote ends the literal early, a
\* control character or an unknown escape is invalid).
RECURSIVE JsonUnescape(_)
JsonUnescape(w) ==
    IF w = <<>> THEN [ok |-> TRUE, val |-> <<>>]
    ELSE IF Head(w) = CH_BACKSLASH THEN
        IF Len(w) < 2 THEN [ok |-> FALSE, val |-> <<>>]
        ELSE LET e == w[2]
                 rest == JsonUnescape(SubSeq(w, 3, Len(w)))
                 c == IF e = CH_LOWER_N THEN CH_NEWLINE ELSE e
             IN IF e \in {CH_QUOTE, CH_BACKSLASH, CH_LOWER_N} /\ rest.ok
                THEN [ok |-> TRUE, val |-> <<c>> \o rest.val]
                ELSE [ok |-> FALSE, val |-> <<>>]
    ELSE IF Head(w) = CH_QUOTE \/ Head(w) < CH_SPACE
        THEN [ok |-> FALSE, val |-> <<>>]
    ELSE LET rest == JsonUnescape(Tail(w))
         IN IF rest.ok THEN [ok |-> TRUE, val |-> <<Head(w)>> \o rest.val]
            ELSE [ok |-> FALSE, val |-> <<>>]

(***************************************************************************)
(* The session file.  kind: "absent"; "empty" (zero bytes); "garbage" (not *)
(* JSON); "nonobject" (JSON, but a list, a number or a string); "object".  *)
(* An object's session_key is missing, null or a string (sk is the         *)
(* literal's body as written in the file); its timestamp is missing, a     *)
(* number, null or a string (ts is the number).                            *)
(***************************************************************************)
FileOf(kind, skKind, sk, tsKind, ts) ==
    [kind |-> kind, skKind |-> skKind, sk |-> sk, tsKind |-> tsKind, ts |-> ts]

Absent == FileOf("absent", "missing", <<>>, "missing", 0)
Empty == FileOf("empty", "missing", <<>>, "missing", 0)
Garbage == FileOf("garbage", "missing", <<>>, "missing", 0)
NonObject == FileOf("nonobject", "missing", <<>>, "missing", 0)

\* json.dump({'session_key': k, 'timestamp': t}, f, indent=2)
JsonDump(k, t) == FileOf("object", "string", JsonEscape(k), "number", t)

\* json.load(f): [ok, obj]; ok is FALSE for JSONDecodeError
JsonLoad(f) ==
    IF f.kind \in {"empty", "garbage"} THEN [ok |-> FALSE, obj |-> f]
    ELSE IF f.kind = "object" /\ f.skKind = "string" /\ ~JsonUnescape(f.sk).ok
        THEN [ok |-> FALSE, obj |-> f]
    ELSE [ok |-> TRUE, obj |-> f]

\* session_data.get('session_key')
GetSessionKey(obj) ==
    IF obj.skKind = "string" THEN Some(JsonUnescape(obj.sk).val) ELSE None

\* session_data.get('timestamp', 0), where it is a number
GetTimestamp(obj) == IF obj.tsKind = "missing" THEN 0 ELSE obj.ts

(***************************************************************************)
(* Log records and command lines.  A piece of a message or of an argv is a *)
(* literal of the program (lit), text that came from outside (txt) or a    *)
(* number (num).                                                           *)
(***************************************************************************)
Lit(s) == [lit |-> s, txt |-> <<>>, num |-> 0]
Txt(t) == [lit |-> "", txt |-> t, num |-> 0]
Num(n) == [lit |-> "%d", txt |-> <<>>, num |-> n]

Rec(level, msg, args) == [level |-> level, msg |-> msg, args |-> args]

bw_path == Lit("bw")

Proc(argv, bw_session) == [argv |-> argv, bw_session |-> bw_session]

\* str(CalledProcessError): "Command '%s' returned non-zero exit status %d."
\* % (self.cmd, self.returncode)
CalledProcessErrorStr(argv, rc) == argv \o <<Num(rc)>>

\* What a call returned (ok: its bool, val: its Optional[str]) or raised
\* (exc: the exception's class, "none" when it returned).
Ret(op, ok, val, exc) == [op |-> op, ok |-> ok, val |-> val, exc |-> exc]

(***************************************************************************)
(* BitwardenCLI: the session store.  Each operator computes what the       *)
(* method leaves behind: the file, the cached key (with the timestamp it   *)
(* came with), the records logged, and the exception that escapes it.      *)
(***************************************************************************)
Out(f, key, iat, lg, exc) ==
    [file |-> f, key |-> key, iat |-> iat, log |-> lg, exc |-> exc]

\* _cleanup_session_file; rm_ok: os.remove succeeds
CleanupSessionFile(f, rm_ok) ==
    IF f.kind = "absent" THEN [file |-> f, log |-> <<>>]
    ELSE IF rm_ok
        THEN [file |-> Absent,
              log |-> <<Rec("debug", "Session file cleaned up", <<>>)>>]
    ELSE [file |-> f,
          log |-> <<Rec("warning", "Failed to cleanup session file: %s",
                        <<Lit("OSError")>>)>>]

\* the test of line 68 with <= for <
SessionFreshInclusive(t, timestamp, key) ==
    t - timestamp <= SESSION_TIMEOUT /\ Truthy(key)

\* current_time - timestamp < self.SESSION_TIMEOUT and session_key
SessionFresh(t, timestamp, key) ==
    t - timestamp < SESSION_TIMEOUT /\ Truthy(key)

\* what _load_session makes of the file content f at time t: "no_file",
\* "decode_error" (json.load raises JSONDecodeError), "AttributeError" (.get
\* on what is no dict), "TypeError" (current_time - timestamp on what is no
\* number), "valid" or "stale"
LoadVerdict(f, t) ==
    IF f.kind = "absent" THEN "no_file"
    ELSE IF ~JsonLoad(f).ok THEN "decode_error"
    ELSE IF f.kind = "nonobject" THEN "AttributeError"
    ELSE IF f.tsKind \notin {"missing", "number"} THEN "TypeError"
    ELSE IF SessionFresh(t, GetTimestamp(JsonLoad(f).obj),
                         GetSessionKey(JsonLoad(f).obj))
        THEN "valid"
    ELSE "stale"

\* _load_session at time t
LoadSession(f, key, iat, t, rm_ok) ==
    LET v == LoadVerdict(f, t)
        c == CleanupSessionFile(f, rm_ok)
    IN CASE v = "no_file" ->
                Out(f, key, iat,
                    <<Rec("debug", "No session file found", <<>>)>>, "none")
         [] v = "decode_error" ->
                Out(c.file, key, iat,
                    <<Rec("warning", "Failed to load session file: %s",
                          <<Lit("JSONDecodeError")>>)>> \o c.log, "none")
         [] v \in {"AttributeError", "TypeError"} ->
                Out(f, key, iat, <<>>, v)
         [] v = "valid" ->
                Out(f, GetSessionKey(JsonLoad(f).obj),
                    GetTimestamp(JsonLoad(f).obj),
                    <<Rec("debug", "Loaded valid session from file", <<>>)>>,
                    "none")
         [] v = "stale" ->
                Out(c.file, key, iat,
                    <<Rec("debug",
                          "Session expired or invalid, will require login",
                          <<>>)>> \o c.log, "none")

\* what open(..., 'w') and json.dump can do: IoOutcomes
IoOutcomes == {"ok", "open_error", "write_error"}

\* _save_session(session_key) at time t; io: the file can be opened and
\* written ("ok"), cannot be opened or its directory made ("open_error":
\* the file is as it was), or is opened, hence truncated, and the write
\* fails ("write_error")
SaveSession(f, key, iat, tok, t, io) ==
    IF io = "ok"
    THEN Out(JsonDump(tok, t), Some(tok), t,
             <<Rec("debug", "Session saved to file", <<>>)>>, "none")
    ELSE Out(IF io = "open_error" THEN f ELSE Empty, key, iat,
             <<Rec("warning", "Failed to save session file: %s",
                   <<Lit("OSError")>>)>>, "none")

\* clear_session
ClearSession(f, rm_ok) ==
    LET c == CleanupSessionFile(f, rm_ok)
    IN Out(c.file, None, 0, c.log, "none")

(***************************************************************************)
(* What the environment can answer.                                        *)
(***************************************************************************)
TokChars == {CH_LOWER_A, CH_QUOTE, CH_NEWLINE}
Stdouts == SeqsUpTo(TokChars, MaxOutLen)
Stderrs == {<<>>, <<CH_UPPER_E>>}
Passwords == {<<>>, <<CH_LOWER_P>>}

\* how `bw unlock` and `bw lock` can end: a non-zero exit with something or
\* nothing on stderr, or exit 0 with the token on stdout
Exited(rc, stdout, stderr) == [rc |-> rc, stdout |-> stdout, stderr |-> stderr]
UnlockExits ==
    {Exited(1, <<>>, e) : e \in Stderrs} \cup {Exited(0, o, <<>>) : o \in Stdouts}
LockExits == {Exited(1, <<>>, e) : e \in Stderrs} \cup {Exited(0, <<>>, <<>>)}

\* `bw status`: the status field of its JSON, or the way the call fails
StatusOutcomes == {"unlocked", "locked", "unauthenticated", "nonzero",
                   "badjson", "oserror"}

\* session files a previous run, or anything else, may have left
InitialFiles ==
    {Absent, Empty, Garbage, NonObject}
    \cup {FileOf("object", "string", JsonEscape(k), "number", StartTime - age) :
            k \in {<<>>, <<CH_LOWER_A>>, <<CH_QUOTE>>},
            age \in {0, SESSION_TIMEOUT - 1, SESSION_TIMEOUT}}
    \cup {FileOf("object", skKind, <<>>, "number", StartTime) :
            skKind \in {"missing", "null"}}
    \cup {FileOf("object", "string", <<CH_LOWER_A>>, tsKind, 0) :
            tsKind \in {"missing", "null", "string"}}

(***************************************************************************)
(* The client's methods as steps of one process.                           *)
(***************************************************************************)
Apply(o) ==
    /\ file' = o.file
    /\ session_key' = o.key
    /\ issuedAt' = o.iat
    /\ log' = o.log

\* BitwardenCLI(): __init__ of a new process run
Construct(rm_ok) ==
    LET o == LoadSession(file, None, 0, now, rm_ok)
    IN /\ Apply(o)
       /\ constructed' = (o.exc = "none")
       /\ ret' = Ret("__init__", o.exc = "none", None, o.exc)
       /\ spawned' = <<>>
       /\ UNCHANGED <<now, ticks>>
       /\ UNCHANGED <<saveVars, peerVars, uiVars, procVars>>

\* _load_session called again on the object
Reload(rm_ok) ==
    /\ constructed
    /\ LET o == LoadSession(file, session_key, issuedAt, now, rm_ok)
       IN /\ Apply(o)
          /\ ret' = Ret("_load_session", o.exc = "none", None, o.exc)
    /\ spawned' = <<>>
    /\ UNCHANGED <<now, ticks, constructed>>
    /\ UNCHANGED <<saveVars, peerVars, uiVars, procVars>>

\* clear_session()
Clear(rm_ok) ==
    /\ constructed
    /\ Apply(ClearSession(file, rm_ok))
    /\ ret' = Ret("clear_session", TRUE, None, "none")
    /\ spawned' = <<>>
    /\ UNCHANGED <<now, ticks, constructed>>
    /\ UNCHANGED <<saveVars, peerVars, uiVars, procVars>>

\* is_unlocked with the cached key key, `bw status` answering st
IsUnlockedResultAsksStatus(key, st) ==
    [ret |-> Ret("is_unlocked", st = "unlocked", None,
                 IF st = "oserror" THEN "OSError" ELSE "none"),
     log |-> <<>>,
     spawned |-> <<Proc(<<bw_path, Lit("status")>>, os_environ)>>]

IsUnlockedResult(key, st) ==
    IF Truthy(key)
    THEN [ret |-> Ret("is_unlocked", TRUE, None, "none"),
          log |-> <<Rec("debug", "Using saved session key for unlock check",
                        <<>>)>>,
          spawned |-> <<>>]
    ELSE LET first == Rec("debug",
                          "Checking unlock status with command: %s status",
                          <<bw_path>>)
             run == <<Proc(<<bw_path, Lit("status")>>, os_environ)>>
         IN IF st = "oserror"
            THEN [ret |-> Ret("is_unlocked", FALSE, None, "OSError"),
                  log |-> <<first>>, spawned |-> run]
            ELSE IF st \in {"nonzero", "badjson"}
            THEN [ret |-> Ret("is_unlocked", FALSE, None, "none"),
                  log |-> <<first,
                            Rec("error", "Error checking unlock status: %s",
                                IF st = "nonzero"
                                THEN CalledProcessErrorStr(
                                         <<bw_path, Lit("status")>>, 1)
                                ELSE <<Lit("JSONDecodeError")>>)>>,
                  spawned |-> run]
            ELSE [ret |-> Ret("is_unlocked", st = "unlocked", None, "none"),
                  log |-> <<first,
                            Rec("debug", "Vault status: %s", <<Lit(st)>>),
                            Rec("debug", "Is unlocked: %s",
                                <<Lit(IF st = "unlocked" THEN "True"
                                      ELSE "False")>>)>>,
                  spawned |-> run]

IsUnlocked(st) ==
    /\ constructed
    /\ LET r == IsUnlockedResult(session_key, st)
       IN /\ ret' = r.ret
          /\ log' = r.log
          /\ spawned' = r.spawned
    /\ UNCHANGED <<file, session_key, issuedAt, now, ticks, constructed>>
    /\ UNCHANGED <<saveVars, peerVars, uiVars, procVars>>

\* unlock(password): `bw unlock <password> --raw` exits rc with stdout and
\* stderr; io is what saving the session meets
UnlockResult(f, key, iat, t, password, rc, stdout, stderr, io) ==
    LET argv == <<bw_path, Lit("unlock"), Txt(password), Lit("--raw")>>
        first == Rec("debug",
                     "Attempting to unlock vault with command: %s unlock",
                     <<bw_path>>)
        tok == Strip(stdout)
    IN IF rc # 0
       THEN [out |-> Out(f, key, iat,
                         <<first,
                           Rec("error", "Failed to unlock vault: %s",
                               CalledProcessErrorStr(argv, rc))>>
                         \o (IF stderr # <<>>
                             THEN <<Rec("error", "Error output: %s",
                                        <<Txt(stderr)>>)>>
                             ELSE <<>>),
                         "none"),
             ret |-> Ret("unlock", FALSE, None, "none"),
             spawned |-> <<Proc(argv, os_environ)>>]
       ELSE LET second == Rec("debug",
                              "Unlock successful, session key length: %d",
                              <<Num(Len(tok))>>)
                s == IF tok # <<>>
                     THEN SaveSession(f, key, iat, tok, t, io)
                     ELSE Out(f, key, iat, <<>>, "none")
            IN [out |-> Out(s.file, s.key, s.iat,
                            <<first, second>> \o s.log, "none"),
                ret |-> Ret("unlock", tok # <<>>, Some(tok), "none"),
                spawned |-> <<Proc(argv, os_environ)>>]

Unlock(password, rc, stdout, stderr, io) ==
    /\ constructed
    /\ LET r == UnlockResult(file, session_key, issuedAt, now, password, rc,
                             stdout, stderr, io)
       IN /\ Apply(r.out)
          /\ ret' = r.ret
          /\ spawned' = r.spawned
    /\ UNCHANGED <<now, ticks, constructed>>
    /\ UNCHANGED <<saveVars, peerVars, uiVars, procVars>>

\* lock(): `bw lock` exits rc with stderr
LockResult(f, key, iat, rc, stderr, rm_ok) ==
    LET argv == <<bw_path, Lit("lock")>>
        first == Rec("debug", "Locking vault", <<>>)
    IN IF rc = 0
       THEN LET c == ClearSession(f, rm_ok)
            IN [out |-> Out(c.file, c.key, c.iat,
                            <<first,
                              Rec("debug", "Vault locked successfully",
                                  <<>>)>> \o c.log, "none"),
                ret |-> Ret("lock", TRUE, None, "none"),
                spawned |-> <<Proc(argv, os_environ)>>]
       ELSE [out |-> Out(f, key, iat,
                         <<first,
                           Rec("error", "Failed to lock vault: %s",
                               CalledProcessErrorStr(argv, rc))>>
                         \o (IF stderr # <<>>
                             THEN <<Rec("error", "Error output: %s",
                                        <<Txt(stderr)>>)>>
                             ELSE <<>>),
                         "none"),
             ret |-> Ret("lock", FALSE, None, "none"),
             spawned |-> <<Proc(argv, os_environ)>>]

Lock(rc, stderr, rm_ok) ==
    /\ constructed
    /\ LET r == LockResult(file, session_key, issuedAt, rc, stderr, rm_ok)
       IN /\ Apply(r.out)
          /\ ret' = r.ret
          /\ spawned' = r.spawned
    /\ UNCHANGED <<now, ticks, constructed>>
    /\ UNCHANGED <<saveVars, peerVars, uiVars, procVars>>

\* lock_vault(): `bw lock` exits rc
LockVaultResult(f, rc, rm_ok) ==
    LET argv == <<bw_path, Lit("lock")>>
        c == ClearSession(f, rm_ok)
    IN [out |-> Out(c.file, c.key, c.iat,
                    (IF rc = 0
                     THEN <<Rec("debug", "Vault locked successfully", <<>>)>>
                     ELSE <<Rec("warning", "Failed to lock vault via CLI: %s",
                                CalledProcessErrorStr(argv, rc))>>)
                    \o c.log, "none"),
        ret |-> Ret("lock_vault", TRUE, None, "none"),
        spawned |-> <<Proc(argv, os_environ)>>]

LockVault(rc, rm_ok) ==
    /\ constructed
    /\ LET r == LockVaultResult(file, rc, rm_ok)
       IN /\ Apply(r.out)
          /\ ret' = r.ret
          /\ spawned' = r.spawned
    /\ UNCHANGED <<now, ticks, constructed>>
    /\ UNCHANGED <<saveVars, peerVars, uiVars, procVars>>

\* time passes between two calls
TickSteps == {SESSION_TIMEOUT - 1, SESSION_TIMEOUT}

Tick(d) ==
    /\ ticks < MaxTicks
    /\ now' = now + d
    /\ ticks' = ticks + 1
    /\ UNCHANGED <<file, session_key, issuedAt, constructed, ret, log,
                   spawned>>
    /\ UNCHANGED <<saveVars, peerVars, uiVars, procVars>>

(***************************************************************************)
(* The application and its window: BwTuiApp.run, then MainWindow.run with  *)
(* the unlock prompt and the browse/search loop.  A step is one getch()    *)
(* and everything the window does with the key; in such a step ret, log    *)
(* and spawned hold what the client did during the step.  The clock moves  *)
(* by Tick alone.                                                          *)
(***************************************************************************)
MaxQueryLen == 2    \* longest search query typed
MaxPwLen == 1       \* longest password typed at the prompt

\* key codes of getch()
NO_KEY == -1
KEY_BS == 8
KEY_LF == 10
KEY_CR == 13
KEY_ESC == 27
KEY_DEL == 127
KEY_DOWN == 258
KEY_UP == 259
KEY_BACKSPACE == 263
KEY_ENTER == 343
ORD_SLASH == 47
ORD_C == 99
ORD_L == 108
ORD_Q == 113
ORD_S == 115
PRINTABLE_MIN == 32
PRINTABLE_MAX == 126

\* str.lower on ASCII
ORD_UPPER_A == 65
ORD_UPPER_Z == 90
CASE_OFFSET == 32

\* colour pairs and the life of a status message, in seconds
COLOR_SUCCESS == 2
COLOR_ERROR == 3
STATUS_SECONDS == 3

Printable(ch) == ch >= PRINTABLE_MIN /\ ch <= PRINTABLE_MAX

\* a lower() that leaves every character as it is
LowerKeepsCase(s) == s

Lower(s) ==
    [i \in DOMAIN s |-> IF s[i] >= ORD_UPPER_A /\ s[i] <= ORD_UPPER_Z
                        THEN s[i] + CASE_OFFSET ELSE s[i]]

\* str.find: the least 0-based index at which sub occurs in s, else -1
Find(s, sub) ==
    LET at == {i \in 0..(Len(s) - Len(sub)) :
                  SubSeq(s, i + 1, i + Len(sub)) = sub}
    IN IF at = {} THEN -1 ELSE CHOOSE i \in at : \A j \in at : i <= j

\* a vault item: "name" missing, null or a string; "login" truthy or not,
\* with its "username" and "password"
ItemOf(nameKind, name, hasLogin, username, password) ==
    [nameKind |-> nameKind, name |-> name, hasLogin |-> hasLogin,
     username |-> username, password |-> password]

\* item.get("name", "") or ""
NameOrEmpty(item) == IF item.nameKind = "string" THEN item.name ELSE <<>>

\* item.get("name", "Unknown") as %s prints it
NameOrUnknown(item) ==
    CASE item.nameKind = "missing" -> Lit("Unknown")
      [] item.nameKind = "null" -> Lit("None")
      [] OTHER -> Txt(item.name)

OrEmpty(o) == IF Truthy(o) THEN o.val ELSE <<>>

\* a filter that reads the name alone
MatchesNameOnly(item, query_lower) ==
    Find(Lower(NameOrEmpty(item)), query_lower) # -1

\* the condition of the comprehension in _filter_items
Matches(item, query_lower) ==
    \/ Find(Lower(NameOrEmpty(item)), query_lower) # -1
    \/ /\ item.hasLogin
       /\ Find(Lower(OrEmpty(item.username)), query_lower) # -1

\* a filter that applies the match to the empty query too, on names alone
FilterItemsNamedOnly(its, query) ==
    [filtered_items |->
        SelectSeq(its, LAMBDA item : /\ item.nameKind = "string"
                                     /\ Matches(item, Lower(query))),
     current_selection |-> 0]

\* a filter that leaves the selection where it is
FilterItemsKeepsSelection(its, query) ==
    [filtered_items |->
        IF query = <<>> THEN its
        ELSE SelectSeq(its, LAMBDA item : Matches(item, Lower(query))),
     current_selection |-> current_selection]

\* _filter_items: the new filtered_items and current_selection
FilterItems(its, query) ==
    [filtered_items |->
        IF query = <<>> THEN its
        ELSE SelectSeq(its, LAMBDA item : Matches(item, Lower(query))),
     current_selection |-> 0]

\* a list of mechanisms that starts with the X11 tools
methodsX11First ==
    <<"_try_xclip", "_try_xsel", "_try_pyperclip", "_try_wl_copy",
      "_try_termux_clipboard">>

\* ClipboardManager.copy_to_clipboard: outs[i] is what the i-th mechanism
\* does, "ok", "false" (it returns False) or "oserror" (it raises)
methods ==
    <<"_try_pyperclip", "_try_xclip", "_try_xsel", "_try_wl_copy",
      "_try_termux_clipboard">>

\* copy_to_clipboard was not called
NoClip == [ok |-> FALSE, tried |-> <<>>, text |-> <<>>, outs |-> <<>>]

\* the loop over methods from the i-th on: the result and the mechanisms
\* called
RECURSIVE CopyFrom(_, _, _)
CopyFrom(i, text, outs) ==
    IF i > Len(methods) THEN [ok |-> FALSE, tried |-> <<>>]
    ELSE IF outs[i] = "ok"
    THEN [ok |-> TRUE, tried |-> <<methods[i]>>]
    ELSE LET r == CopyFrom(i + 1, text, outs)
         IN [ok |-> r.ok, tried |-> <<methods[i]>> \o r.tried]

\* a delivery that gives up after its first mechanism
CopyFirstOnly(text, outs) ==
    [ok |-> outs[1] = "ok", tried |-> <<methods[1]>>, text |-> text,
     outs |-> outs]

CopyToClipboard(text, outs) ==
    LET r == CopyFrom(1, text, outs)
    IN [ok |-> r.ok, tried |-> r.tried, text |-> text, outs |-> outs]

\* the mechanisms before the k-th fail in the way how, the others work
ClipEnvs ==
    {[i \in DOMAIN methods |-> IF i < k THEN how ELSE "ok"] :
        k \in 1..(Len(methods) + 1), how \in {"false", "oserror"}}

ClipAllOk == [i \in DOMAIN methods |-> "ok"]

\* _show_status(message % arg, error)
\* a status drawn in the success colour whatever `error` says
ShownAlwaysSuccess(message, arg, error) ==
    [message |-> message, arg |-> arg, color |-> COLOR_SUCCESS]

Shown(message, arg, error) ==
    [message |-> message, arg |-> arg,
     color |-> IF error THEN COLOR_ERROR ELSE COLOR_SUCCESS]

\* _copy_password
\* a copy without the guard on the empty list
CopyPasswordUnguarded(filtered, selection, outs) ==
    IF filtered = <<>> \/ selection >= Len(filtered)
    THEN [clip |-> NoClip,
          shown |-> <<Shown("No password found for this item", <<>>, TRUE)>>]
    ELSE LET item == filtered[selection + 1]
         IN IF item.hasLogin /\ Truthy(item.password)
            THEN LET c == CopyToClipboard(item.password.val, outs)
                 IN [clip |-> c,
                     shown |-> <<Shown("Password copied for: %s",
                                       <<NameOrUnknown(item)>>, ~c.ok)>>]
            ELSE [clip |-> NoClip,
                  shown |-> <<Shown("No password found for this item", <<>>,
                                    TRUE)>>]

CopyPassword(filtered, selection, outs) ==
    IF filtered = <<>> \/ selection >= Len(filtered)
    THEN [clip |-> NoClip, shown |-> <<>>]
    ELSE LET item == filtered[selection + 1]
         IN IF item.hasLogin /\ Truthy(item.password)
            THEN LET c == CopyToClipboard(item.password.val, outs)
                 IN [clip |-> c,
                     shown |-> IF c.ok
                               THEN <<Shown("Password copied for: %s",
                                            <<NameOrUnknown(item)>>, FALSE)>>
                               ELSE <<Shown(
                                   "Failed to copy password to clipboard",
                                   <<>>, TRUE)>>]
            ELSE [clip |-> NoClip,
                  shown |-> <<Shown("No password found for this item", <<>>,
                                    TRUE)>>]

\* status_message, status_color, status_message_time
StatusOf(message, color, time) ==
    [message |-> message, color |-> color, time |-> time]

NoStatus == StatusOf("", 0, 0)

\* the expiry at the head of _draw_status, at time t
DrawStatus(st, t) ==
    IF st.message # "" /\ t - st.time > STATUS_SECONDS THEN NoStatus ELSE st

ClientInit ==
    /\ file \in InitialFiles
    /\ session_key = None
    /\ issuedAt = 0
    /\ now = StartTime
    /\ ticks = 0
    /\ constructed = FALSE
    /\ ret = Ret("start", TRUE, None, "none")
    /\ log = <<>>
    /\ spawned = <<>>

SaveIdle ==
    /\ wpc = "idle"
    /\ wdata = [tok |-> <<>>, ts |-> 0]
    /\ wlinked = FALSE

PeerIdle ==
    /\ rpc = "done"
    /\ rseen = Absent
    /\ peer_key = None

\* BW_SESSION is not exported to the process, nothing is printed yet
ProcIdle ==
    /\ os_environ = None
    /\ printed = <<>>

\* no window yet
UiIdle ==
    /\ ui_pc = "init"
    /\ exit_exc = "none"
    /\ mode = "browse"
    /\ search_query = <<>>
    /\ items = <<>>
    /\ filtered_items = <<>>
    /\ current_selection = 0
    /\ typed_password = <<>>
    /\ getch = NO_KEY
    /\ status = NoStatus
    /\ shown = <<>>
    /\ clip = NoClip
    /\ redrawn = FALSE

Init == ClientInit /\ SaveIdle /\ PeerIdle /\ ProcIdle /\ UiIdle

Next ==
    \/ \E rm_ok \in BOOLEAN : Construct(rm_ok)
    \/ \E rm_ok \in BOOLEAN : Reload(rm_ok)
    \/ \E rm_ok \in BOOLEAN : Clear(rm_ok)
    \/ \E st \in StatusOutcomes : IsUnlocked(st)
    \/ \E password \in Passwords, p \in UnlockExits, io \in IoOutcomes :
            Unlock(password, p.rc, p.stdout, p.stderr, io)
    \/ \E p \in LockExits, rm_ok \in BOOLEAN : Lock(p.rc, p.stderr, rm_ok)
    \/ \E rc \in {0, 1}, rm_ok \in BOOLEAN : LockVault(rc, rm_ok)
    \/ \E d \in TickSteps : Tick(d)

\* one process, calling the client's methods in any order
Spec == Init /\ [][Next]_vars

(***************************************************************************)
(* Two processes on one session file: this one is inside _save_session     *)
(* (unlock has its token), a second bw-tui is starting and is inside       *)
(* _load_session.  A step is one system call.                              *)
(***************************************************************************)
\* lines 83-86: session_data is built, with time.time()
SaveBegin(tok) ==
    /\ wpc = "idle"
    /\ wpc' = "built"
    /\ wdata' = [tok |-> tok, ts |-> now]
    /\ UNCHANGED <<clientVars, wlinked, peerVars, uiVars, procVars>>

\* lines 89-91: open(SESSION_FILE, 'w') creates or truncates the file, or
\* raises OSError, which line 96 catches
SaveOpen(ok) ==
    /\ wpc = "built"
    /\ IF ok
       THEN /\ file' = Empty
            /\ wlinked' = TRUE
            /\ wpc' = "opened"
            /\ log' = log
       ELSE /\ file' = file
            /\ wlinked' = FALSE
            /\ wpc' = "done"
            /\ log' = <<Rec("warning", "Failed to save session file: %s",
                            <<Lit("OSError")>>)>>
    /\ UNCHANGED <<session_key, issuedAt, now, ticks, constructed, ret,
                   spawned, wdata, peerVars, uiVars, procVars>>

\* lines 92-95: json.dump's text reaches the file when the with block closes
\* it (the file this process opened: if the path was unlinked meanwhile the
\* text goes to the unlinked file), then the key is cached; or the write
\* raises OSError
SaveWrite(ok) ==
    /\ wpc = "opened"
    /\ wpc' = "done"
    /\ wlinked' = FALSE
    /\ IF ok
       THEN /\ file' = IF wlinked THEN JsonDump(wdata.tok, wdata.ts) ELSE file
            /\ session_key' = Some(wdata.tok)
            /\ issuedAt' = wdata.ts
            /\ log' = <<Rec("debug", "Session saved to file", <<>>)>>
       ELSE /\ UNCHANGED <<file, session_key, issuedAt>>
            /\ log' = <<Rec("warning", "Failed to save session file: %s",
                            <<Lit("OSError")>>)>>
    /\ UNCHANGED <<now, ticks, constructed, ret, spawned, wdata, peerVars,
                   uiVars, procVars>>

\* the second process starts: BitwardenCLI() sets _session_key = None and
\* calls _load_session
PeerStart ==
    /\ rpc = "done"
    /\ rseen = Absent
    /\ peer_key = None
    /\ wpc # "done"
    /\ rpc' = "start"
    /\ UNCHANGED <<clientVars, saveVars, rseen, peer_key, uiVars, procVars>>

\* line 59: os.path.exists(SESSION_FILE)
PeerExists ==
    /\ rpc = "start"
    /\ rpc' = IF file.kind = "absent" THEN "done" ELSE "open"
    /\ UNCHANGED <<clientVars, saveVars, rseen, peer_key, uiVars, procVars>>

\* lines 60-73: the file is opened and read whole (FileNotFoundError, an
\* OSError, if it is gone by now), then judged
PeerRead ==
    /\ rpc = "open"
    /\ rseen' = file
    /\ LET v == LoadVerdict(file, now)
       IN IF v = "valid"
          THEN /\ peer_key' = GetSessionKey(JsonLoad(file).obj)
               /\ rpc' = "done"
          ELSE /\ peer_key' = peer_key
               /\ rpc' = IF v \in {"AttributeError", "TypeError"}
                         THEN "done" ELSE "cleanup"
    /\ UNCHANGED <<clientVars, saveVars, uiVars, procVars>>

\* lines 99-106: _cleanup_session_file removes whatever is at the path now
PeerCleanup(rm_ok) ==
    /\ rpc = "cleanup"
    /\ rpc' = "done"
    /\ file' = CleanupSessionFile(file, rm_ok).file
    /\ wlinked' = (wlinked /\ file' # Absent)
    /\ UNCHANGED <<session_key, issuedAt, now, ticks, constructed, ret, log,
                   spawned, wpc, wdata, rseen, peer_key, uiVars, procVars>>

\* complete records, or none, when the two processes meet
ConcFiles ==
    {Absent}
    \cup {JsonDump(k, StartTime - age) :
            k \in {<<CH_LOWER_A>>, <<CH_QUOTE>>},
            age \in {0, SESSION_TIMEOUT - 1, SESSION_TIMEOUT}}

ConcInit ==
    /\ file \in ConcFiles
    /\ session_key = None
    /\ issuedAt = 0
    /\ now = StartTime
    /\ ticks = 0
    /\ constructed = TRUE
    /\ ret = Ret("start", TRUE, None, "none")
    /\ log = <<>>
    /\ spawned = <<>>
    /\ SaveIdle
    /\ PeerIdle
    /\ ProcIdle
    /\ UiIdle

ConcNext ==
    \/ \E tok \in {Strip(o) : o \in Stdouts} \ {<<>>} : SaveBegin(tok)
    \/ \E ok \in BOOLEAN : SaveOpen(ok)
    \/ \E ok \in BOOLEAN : SaveWrite(ok)
    \/ PeerStart
    \/ PeerExists
    \/ PeerRead
    \/ \E rm_ok \in BOOLEAN : PeerCleanup(rm_ok)
    \/ \E d \in TickSteps : Tick(d)

SpecConc == ConcInit /\ [][ConcNext]_vars

\* the lists `bw list items` may print
ItemA ==
    ItemOf("string", <<ORD_UPPER_A>>, TRUE, Some(<<ORD_Q>>),
           Some(<<CH_LOWER_P>>))
ItemQ == ItemOf("string", <<ORD_Q, CH_LOWER_A>>, TRUE, None, None)
ItemBare == ItemOf("null", <<>>, FALSE, None, None)
ItemEmpty == ItemOf("missing", <<>>, TRUE, None, Some(<<>>))
ItemLists == {<<>>, <<ItemA, ItemQ, ItemBare, ItemEmpty>>}

\* how `bw list items` may end
ListExit(how, its, stderr) == [how |-> how, items |-> its, stderr |-> stderr]
ListExits ==
    {ListExit("ok", its, <<>>) : its \in ItemLists}
    \cup {ListExit("nonzero", <<>>, e) : e \in Stderrs}
    \cup {ListExit("badjson", <<>>, <<>>)}

\* the keys pressed in the loop and at the prompt
LoopKeys ==
    {NO_KEY, KEY_BS, KEY_LF, KEY_ESC, KEY_DEL, KEY_DOWN, KEY_UP,
     KEY_BACKSPACE, KEY_ENTER, ORD_SLASH, ORD_C, ORD_L, ORD_Q, ORD_S,
     ORD_UPPER_A}
PromptKeys ==
    {NO_KEY, KEY_BS, KEY_LF, KEY_CR, KEY_ESC, KEY_DEL, KEY_DOWN,
     KEY_BACKSPACE, KEY_ENTER, CH_LOWER_P}

\* the keys that `ch == curses.KEY_ENTER or ch == 10 or ch == 13` and
\* `ch == ord('c') or ch == curses.KEY_ENTER or ch == 10` take
EnterKeys == {KEY_ENTER, KEY_LF, KEY_CR}
CopyKeys == {ORD_C, KEY_ENTER, KEY_LF}

\* how `bw unlock` may end at the prompt
PromptExits ==
    {Exited(1, <<>>, <<CH_UPPER_E>>), Exited(0, <<>>, <<>>),
     Exited(0, <<CH_LOWER_A, CH_NEWLINE>>, <<>>)}

NoCall == Ret("none", TRUE, None, "none")

\* an is_logged_in that takes every status for a login
IsLoggedInResultAnyStatus(st) ==
    LET run == <<Proc(<<bw_path, Lit("status")>>, os_environ)>>
    IN IF st \in {"oserror", "nonzero", "badjson"}
       THEN [ret |-> Ret("is_logged_in", FALSE, None,
                         IF st = "oserror" THEN "OSError" ELSE "none"),
             log |-> <<>>, spawned |-> run]
       ELSE [ret |-> Ret("is_logged_in", TRUE, None, "none"),
             log |-> <<Rec("debug", "Login status: %s", <<Lit(st)>>)>>,
             spawned |-> run]

\* is_logged_in, `bw status` answering st
IsLoggedInResult(st) ==
    LET first == Rec("debug", "Checking login status with command: %s status",
                     <<bw_path>>)
        run == <<Proc(<<bw_path, Lit("status")>>, os_environ)>>
    IN IF st = "oserror"
       THEN [ret |-> Ret("is_logged_in", FALSE, None, "OSError"),
             log |-> <<first>>, spawned |-> run]
       ELSE IF st \in {"nonzero", "badjson"}
       THEN [ret |-> Ret("is_logged_in", FALSE, None, "none"),
             log |-> <<first,
                       Rec("error", "Error checking login status: %s",
                           IF st = "nonzero"
                           THEN CalledProcessErrorStr(
                                    <<bw_path, Lit("status")>>, 1)
                           ELSE <<Lit("JSONDecodeError")>>)>>,
             spawned |-> run]
       ELSE LET logged_in == st \in {"unlocked", "locked"}
            IN [ret |-> Ret("is_logged_in", logged_in, None, "none"),
                log |-> <<first,
                          Rec("debug", "Login status: %s", <<Lit(st)>>),
                          Rec("debug", "Is logged in: %s",
                              <<Lit(IF logged_in THEN "True" ELSE "False")>>)>>,
                spawned |-> run]

\* `session_key or self._session_key`: the argument when it is truthy, else
\* the cached key
EffectiveSessionKeyCachedFirst(override, key) ==
    IF Truthy(key) THEN key ELSE override

EffectiveSessionKey(override, key) ==
    IF Truthy(override) THEN override ELSE key

\* BW_SESSION in the environment handed to the subprocess: os.environ.copy()
\* with env["BW_SESSION"] assigned when the effective key is truthy
ChildSession(effective_session_key) ==
    IF Truthy(effective_session_key) THEN effective_session_key
    ELSE os_environ

\* get_items(override) with the cached key key: `bw list items` ends as how,
\* printing the list its on success and stderr on a non-zero exit
GetItemsResult(override, key, how, its, stderr) ==
    LET argv == <<bw_path, Lit("list"), Lit("items")>>
        effective_session_key == EffectiveSessionKey(override, key)
        first == IF Truthy(effective_session_key)
                 THEN Rec("debug",
                          "Getting items with session key (length: %d)",
                          <<Num(Len(effective_session_key.val))>>)
                 ELSE Rec("debug", "Getting items without session key", <<>>)
        second == Rec("debug", "Running command: %s", argv)
        run == <<Proc(argv, ChildSession(effective_session_key))>>
    IN CASE how = "ok" ->
              [items |-> its, exc |-> "none",
               log |-> <<first, second,
                         Rec("debug",
                             "Successfully retrieved %d items from vault",
                             <<Num(Len(its))>>)>>
                       \o [i \in 1..(IF Len(its) < 3 THEN Len(its) ELSE 3) |->
                             Rec("debug", "Item %d: %s",
                                 <<Num(i), NameOrUnknown(its[i])>>)],
               spawned |-> run]
         [] how = "nonzero" ->
              [items |-> <<>>, exc |-> "none",
               log |-> <<first, second,
                         Rec("error", "Failed to get items: %s",
                             CalledProcessErrorStr(argv, 1))>>
                       \o (IF stderr # <<>>
                           THEN <<Rec("error", "Error output: %s",
                                      <<Txt(stderr)>>)>>
                           ELSE <<>>),
               spawned |-> run]
         [] how = "badjson" ->
              [items |-> <<>>, exc |-> "none",
               log |-> <<first, second,
                         Rec("error", "Failed to parse JSON response: %s",
                             <<Lit("JSONDecodeError")>>)>>,
               spawned |-> run]
         [] OTHER ->
              [items |-> <<>>, exc |-> "OSError", log |-> <<first, second>>,
               spawned |-> run]

\* a search that catches the non-zero exit alone
SearchItemsResultUncaught(override, key, query, how, its) ==
    LET argv == <<bw_path, Lit("list"), Lit("items"), Lit("--search"),
                  Txt(query)>>
        run == <<Proc(argv, ChildSession(EffectiveSessionKey(override, key)))>>
    IN CASE how = "ok" -> [items |-> its, exc |-> "none", spawned |-> run]
         [] how = "nonzero" -> [items |-> <<>>, exc |-> "none", spawned |-> run]
         [] how = "badjson" ->
              [items |-> <<>>, exc |-> "JSONDecodeError", spawned |-> run]
         [] OTHER -> [items |-> <<>>, exc |-> "OSError", spawned |-> run]

\* search_items(query, override): `bw list items --search <query>` ends as
\* how, printing the list its on success
SearchItemsResult(override, key, query, how, its) ==
    LET argv == <<bw_path, Lit("list"), Lit("items"), Lit("--search"),
                  Txt(query)>>
        effective_session_key == EffectiveSessionKey(override, key)
        run == <<Proc(argv, ChildSession(effective_session_key))>>
    IN CASE how = "ok" -> [items |-> its, exc |-> "none", spawned |-> run]
         [] how \in {"nonzero", "badjson"} ->
              [items |-> <<>>, exc |-> "none", spawned |-> run]
         [] OTHER -> [items |-> <<>>, exc |-> "OSError", spawned |-> run]

\* get_item(item_id, override): `bw get item <item_id>` ends as how, printing
\* item on success
GetItemResult(override, key, item_id, how, item) ==
    LET argv == <<bw_path, Lit("get"), Lit("item"), Txt(item_id)>>
        effective_session_key == EffectiveSessionKey(override, key)
        run == <<Proc(argv, ChildSession(effective_session_key))>>
    IN CASE how = "ok" -> [item |-> Some(item), exc |-> "none", spawned |-> run]
         [] how \in {"nonzero", "badjson"} ->
              [item |-> None, exc |-> "none", spawned |-> run]
         [] OTHER -> [item |-> None, exc |-> "OSError", spawned |-> run]

\* a process that ends with a failure whatever happened
ExitCodeFailure(exc) == 1

\* how the process ends on the exception exc ("none": run() returned)
ExitCode(exc) == IF exc \in {"none", "KeyboardInterrupt"} THEN 0 ELSE 1

\* a line printed: print(msg % args)
PrintLine(msg, args) == [msg |-> msg, args |-> args]

\* what BwTuiApp.run prints before sys.exit(1)
NotAvailable ==
    <<PrintLine("Error: Bitwarden CLI is not available.", <<>>),
      PrintLine("Please install it with: npm install -g @bitwarden/cli", <<>>)>>
NotLoggedIn ==
    <<PrintLine("Error: You are not logged in to Bitwarden.", <<>>),
      PrintLine("Please run 'bw login' first.", <<>>)>>

\* what main() prints when app.run() ends with the exception exc
MainPrints(exc) ==
    CASE exc \in {"none", "SystemExit"} -> <<>>
      [] exc = "KeyboardInterrupt" -> <<PrintLine("Exiting bw-tui...", <<>>)>>
      [] OTHER -> <<PrintLine("Error: %s", <<Lit(exc)>>)>>

\* BwTuiApp.run up to the creation of the window: the client is built, the
\* tool is looked for (avail) and `bw status` answers st
AppRun(rm_ok, avail, st) ==
    /\ ui_pc = "init"
    /\ ~constructed
    /\ LET o == LoadSession(file, None, 0, now, rm_ok)
           li == IsLoggedInResult(st)
           called == o.exc = "none" /\ avail
           exc == IF o.exc # "none" THEN o.exc
                  ELSE IF ~avail THEN "SystemExit"
                  ELSE IF li.ret.exc # "none" THEN li.ret.exc
                  ELSE IF ~li.ret.ok THEN "SystemExit"
                  ELSE "none"
       IN /\ file' = o.file
          /\ session_key' = o.key
          /\ issuedAt' = o.iat
          /\ constructed' = (o.exc = "none")
          /\ log' = o.log \o (IF called THEN li.log ELSE <<>>)
          /\ spawned' = IF called THEN li.spawned ELSE <<>>
          /\ ret' = IF called THEN li.ret
                    ELSE Ret("__init__", o.exc = "none", None, o.exc)
          /\ ui_pc' = IF exc = "none" THEN "run" ELSE "exited"
          /\ exit_exc' = exc
          /\ printed' = (IF o.exc # "none" THEN <<>>
                         ELSE IF ~avail THEN NotAvailable
                         ELSE IF li.ret.exc = "none" /\ ~li.ret.ok
                         THEN NotLoggedIn
                         ELSE <<>>) \o MainPrints(exc)
    /\ UNCHANGED <<now, ticks, mode, search_query, items, filtered_items,
                   current_selection, typed_password, getch, status, shown,
                   clip, redrawn>>
    /\ UNCHANGED <<saveVars, peerVars, os_environ>>

\* _load_items and the first _draw_ui of run()
LoadItems(log_before, spawned_before, how, its, stderr) ==
    LET g == GetItemsResult(None, session_key', how, its, stderr)
    IN /\ items' = g.items
       /\ filtered_items' = g.items
       /\ current_selection' = 0
       /\ log' = log_before \o g.log
       /\ spawned' = spawned_before \o g.spawned
       /\ ret' = Ret("get_items", TRUE, None, "none")
       /\ status' = DrawStatus(status, now)
       /\ redrawn' = TRUE
       /\ ui_pc' = "main"
       /\ exit_exc' = "none"

\* MainWindow.run up to its first getch(): is_unlocked answers from the
\* cached key or from `bw status` (st)
RunStart(st, how, its, stderr) ==
    /\ ui_pc = "run"
    /\ LET u == IsUnlockedResult(session_key, st)
       IN /\ UNCHANGED <<file, session_key, issuedAt>>
          /\ IF u.ret.exc # "none"
             THEN /\ ui_pc' = "exited"
                  /\ exit_exc' = u.ret.exc
                  /\ log' = u.log
                  /\ spawned' = u.spawned
                  /\ ret' = u.ret
                  /\ UNCHANGED <<mode, items, filtered_items,
                                 current_selection, status, redrawn>>
             ELSE IF u.ret.ok
             THEN /\ LoadItems(u.log, u.spawned, how, its, stderr)
                  /\ UNCHANGED mode
             ELSE /\ ui_pc' = "unlock"
                  /\ mode' = "unlock"
                  /\ log' = u.log
                  /\ spawned' = u.spawned
                  /\ ret' = u.ret
                  /\ UNCHANGED <<exit_exc, items, filtered_items,
                                 current_selection, status, redrawn>>
    /\ typed_password' = <<>>
    /\ UNCHANGED <<now, ticks, constructed, search_query, getch, shown, clip>>
    /\ printed' = printed \o (IF ui_pc' = "exited" THEN MainPrints(exit_exc')
                               ELSE <<>>)
    /\ UNCHANGED <<saveVars, peerVars, os_environ>>

\* one key at the prompt of _unlock_vault: `bw unlock` ends as p, saving
\* the session meets io, `bw list items` ends as how
UnlockKey(ch, p, io, how, its, stderr) ==
    /\ ui_pc = "unlock"
    /\ ~(Printable(ch) /\ Len(typed_password) >= MaxPwLen)
    /\ getch' = ch
    /\ IF ch = KEY_ENTER \/ ch = KEY_LF \/ ch = KEY_CR
       THEN LET r == UnlockResult(file, session_key, issuedAt, now,
                                  typed_password, p.rc, p.stdout, p.stderr,
                                  io)
            IN /\ file' = r.out.file
               /\ session_key' = r.out.key
               /\ issuedAt' = r.out.iat
               /\ typed_password' = <<>>
               /\ IF Truthy(r.ret.val)
                  THEN /\ mode' = "browse"
                       /\ shown' = <<>>
                       /\ LoadItems(r.out.log, r.spawned, how, its, stderr)
                  ELSE /\ shown' = <<Shown("Invalid password. Try again.",
                                           <<>>, TRUE)>>
                       /\ log' = r.out.log
                       /\ spawned' = r.spawned
                       /\ ret' = r.ret
                       /\ UNCHANGED <<ui_pc, exit_exc, mode, items,
                                      filtered_items, current_selection,
                                      status, redrawn>>
       ELSE /\ IF ch = KEY_ESC
               THEN ui_pc' = "exited" /\ typed_password' = <<>>
               ELSE /\ ui_pc' = ui_pc
                    /\ typed_password' =
                         IF ch = KEY_BACKSPACE \/ ch = KEY_DEL \/ ch = KEY_BS
                         THEN SubSeq(typed_password, 1,
                                     Len(typed_password) - 1)
                         ELSE IF Printable(ch)
                         THEN Append(typed_password, ch)
                         ELSE typed_password
            /\ log' = <<>>
            /\ spawned' = <<>>
            /\ ret' = NoCall
            /\ shown' = <<>>
            /\ UNCHANGED <<file, session_key, issuedAt, exit_exc, mode, items,
                           filtered_items, current_selection, status,
                           redrawn>>
    /\ UNCHANGED <<now, ticks, constructed, search_query, clip>>
    /\ printed' = printed \o (IF ui_pc' = "exited" THEN MainPrints(exit_exc')
                               ELSE <<>>)
    /\ UNCHANGED <<saveVars, peerVars, os_environ>>

\* max(0, self.current_selection - 1)
SelectionUp(selection) == IF selection - 1 > 0 THEN selection - 1 ELSE 0

\* a move down that stops nowhere
SelectionDownUnclamped(selection, filtered) == selection + 1

\* min(len(self.filtered_items) - 1, self.current_selection + 1)
SelectionDown(selection, filtered) ==
    IF Len(filtered) - 1 < selection + 1 THEN Len(filtered) - 1
    ELSE selection + 1

\* a cancel that leaves Search mode with its query
CancelKeyKeepsQuery(base, its) == [base EXCEPT !.mode = "browse"]

\* the ESC branch of _handle_input, from the fields base and the items its
CancelKey(base, its) ==
    LET f == FilterItems(its, <<>>)
    IN [base EXCEPT !.search_query = <<>>, !.mode = "browse",
                    !.filtered_items = f.filtered_items,
                    !.current_selection = f.current_selection]

\* a copy branch that starts over from the first item
CopyKeyFromTop(base, outs) ==
    LET c == CopyPassword(base.filtered_items, 0, outs)
    IN [base EXCEPT !.clip = c.clip, !.shown = c.shown,
                    !.current_selection = 0]

\* the copy branch of _handle_input: _copy_password, from the fields base
CopyKey(base, outs) ==
    LET c == CopyPassword(base.filtered_items, base.current_selection, outs)
    IN [base EXCEPT !.clip = c.clip, !.shown = c.shown]

\* what _handle_input does with the key ch up to its last statement:
\* `bw lock` ends as p, the session file is removed or not (rm_ok), the
\* clipboard mechanisms do outs
HandleInputResult(ch, p, rm_ok, outs) ==
    LET base == [mode |-> mode, search_query |-> search_query,
                 filtered_items |-> filtered_items,
                 current_selection |-> current_selection,
                 status |-> status, shown |-> <<>>, clip |-> NoClip,
                 redraw_needed |-> TRUE, exc |-> "none",
                 out |-> Out(file, session_key, issuedAt, <<>>, "none"),
                 ret |-> NoCall, spawned |-> <<>>]
        refilter(q) == FilterItems(items, q)
    IN CASE ch = NO_KEY -> [base EXCEPT !.redraw_needed = FALSE]
         [] ch = ORD_Q /\ mode # "search" ->
              [base EXCEPT !.redraw_needed = FALSE,
                           !.exc = "KeyboardInterrupt"]
         [] ch = KEY_ESC -> CancelKey(base, items)
         [] ch = ORD_S \/ ch = ORD_SLASH -> [base EXCEPT !.mode = "search"]
         [] ch = ORD_C \/ ch = KEY_ENTER \/ ch = KEY_LF -> CopyKey(base, outs)
         [] ch = ORD_L ->
              LET r == LockResult(file, session_key, issuedAt, p.rc,
                                  p.stderr, rm_ok)
              IN IF r.ret.ok
                 THEN [base EXCEPT
                         !.out = r.out, !.ret = r.ret, !.spawned = r.spawned,
                         !.status = StatusOf(
                             "Vault locked successfully - exiting",
                             COLOR_SUCCESS, now),
                         !.redraw_needed = FALSE,
                         !.exc = "KeyboardInterrupt"]
                 ELSE [base EXCEPT
                         !.out = r.out, !.ret = r.ret, !.spawned = r.spawned,
                         !.status = StatusOf("Failed to lock vault",
                                             COLOR_ERROR, now)]
         [] ch = KEY_UP ->
              IF filtered_items # <<>>
              THEN [base EXCEPT !.current_selection =
                        SelectionUp(current_selection)]
              ELSE base
         [] ch = KEY_DOWN ->
              IF filtered_items # <<>>
              THEN [base EXCEPT !.current_selection =
                        SelectionDown(current_selection, filtered_items)]
              ELSE base
         [] OTHER ->
              IF mode = "search"
              THEN IF ch = KEY_BACKSPACE \/ ch = KEY_DEL
                   THEN LET q == SubSeq(search_query, 1,
                                        Len(search_query) - 1)
                        IN [base EXCEPT
                              !.search_query = q,
                              !.filtered_items = refilter(q).filtered_items,
                              !.current_selection =
                                  refilter(q).current_selection]
                   ELSE IF Printable(ch)
                   THEN LET q == Append(search_query, ch)
                        IN [base EXCEPT
                              !.search_query = q,
                              !.filtered_items = refilter(q).filtered_items,
                              !.current_selection =
                                  refilter(q).current_selection]
                   ELSE base
              ELSE [base EXCEPT !.redraw_needed = FALSE]

\* one pass of the loop of run(): _handle_input with the key ch, its
\* _draw_ui included
HandleInput(ch, p, rm_ok, outs) ==
    /\ ui_pc = "main"
    /\ getch' = ch
    /\ \E r \in {HandleInputResult(ch, p, rm_ok, outs)} :
          /\ Len(r.search_query) <= MaxQueryLen
          /\ mode' = r.mode
          /\ search_query' = r.search_query
          /\ filtered_items' = r.filtered_items
          /\ current_selection' = r.current_selection
          /\ shown' = r.shown
          /\ clip' = r.clip
          /\ file' = r.out.file
          /\ session_key' = r.out.key
          /\ issuedAt' = r.out.iat
          /\ log' = r.out.log
          /\ ret' = r.ret
          /\ spawned' = r.spawned
          /\ redrawn' = r.redraw_needed
          /\ status' = IF r.redraw_needed THEN DrawStatus(r.status, now)
                       ELSE r.status
          /\ ui_pc' = IF r.exc = "none" THEN "main" ELSE "exited"
          /\ exit_exc' = r.exc
    /\ UNCHANGED <<now, ticks, constructed, items, typed_password>>
    /\ printed' = printed \o (IF ui_pc' = "exited" THEN MainPrints(exit_exc')
                               ELSE <<>>)
    /\ UNCHANGED <<saveVars, peerVars, os_environ>>

\* Ctrl-C while getch() waits: _unlock_vault returns False and run()
\* returns, the loop lets the KeyboardInterrupt through
Interrupt ==
    /\ ui_pc \in {"unlock", "main"}
    /\ ui_pc' = "exited"
    /\ exit_exc' = IF ui_pc = "unlock" THEN "none" ELSE "KeyboardInterrupt"
    /\ log' = IF ui_pc = "unlock"
              THEN <<Rec("error", "Input handling interrupted: %s", <<>>)>>
              ELSE <<>>
    /\ spawned' = <<>>
    /\ ret' = NoCall
    /\ typed_password' = <<>>
    /\ getch' = NO_KEY
    /\ shown' = <<>>
    /\ clip' = NoClip
    /\ redrawn' = FALSE
    /\ UNCHANGED <<file, session_key, issuedAt, now, ticks, constructed, mode,
                   search_query, items, filtered_items, current_selection,
                   status>>
    /\ printed' = printed \o (IF ui_pc' = "exited" THEN MainPrints(exit_exc')
                               ELSE <<>>)
    /\ UNCHANGED <<saveVars, peerVars, os_environ>>

UiFiles == {Absent, NonObject, JsonDump(<<CH_LOWER_A>>, StartTime)}

UiInit ==
    /\ ClientInit
    /\ file \in UiFiles
    /\ SaveIdle
    /\ PeerIdle
    /\ ProcIdle
    /\ UiIdle

UiNext ==
    \/ \E rm_ok \in BOOLEAN, avail \in BOOLEAN, st \in StatusOutcomes :
            AppRun(rm_ok, avail, st)
    \/ \E st \in StatusOutcomes, l \in ListExits :
            RunStart(st, l.how, l.items, l.stderr)
    \/ \E ch \in PromptKeys \ EnterKeys :
            UnlockKey(ch, Exited(0, <<>>, <<>>), "ok", "ok", <<>>, <<>>)
    \/ \E ch \in EnterKeys, p \in PromptExits, io \in IoOutcomes,
          l \in ListExits :
            UnlockKey(ch, p, io, l.how, l.items, l.stderr)
    \/ \E ch \in LoopKeys \ (CopyKeys \cup {ORD_L}) :
            HandleInput(ch, Exited(0, <<>>, <<>>), TRUE, ClipAllOk)
    \/ \E ch \in CopyKeys, outs \in ClipEnvs :
            HandleInput(ch, Exited(0, <<>>, <<>>), TRUE, outs)
    \/ \E p \in LockExits, rm_ok \in BOOLEAN :
            HandleInput(ORD_L, p, rm_ok, ClipAllOk)
    \/ Interrupt
    \/ \E d \in TickSteps : Tick(d)

\* the program from its start to its exit
SpecUI == UiInit /\ [][UiNext]_vars

\* getch() times out after 50 ms without a key
Poll == HandleInput(NO_KEY, Exited(0, <<>>, <<>>), TRUE, ClipAllOk)

\* the loop of run() never stops polling and the clock never stops, whatever
\* the user does
SpecUILive ==
    /\ SpecUI
    /\ WF_vars(Poll)
    /\ WF_vars(\E d \in TickSteps : Tick(d))

(***************************************************************************)
(* _filter_items as a function of the item list and the query.             *)
(***************************************************************************)
MaxItems == 2       \* longest item list filtered

\* items with the name missing, null or a string, without a login, with a
\* login without username and with a login with one
FilterPool ==
    {ItemOf(n[1], n[2], u[1], u[2], None) :
        n \in {<<"missing", <<>>>>, <<"null", <<>>>>,
                <<"string", <<ORD_UPPER_A>>>>,
                <<"string", <<CH_LOWER_A, ORD_Q>>>>},
        u \in {<<FALSE, None>>, <<TRUE, None>>,
                <<TRUE, Some(<<ORD_Q - CASE_OFFSET>>)>>}}

FilterQueries ==
    SeqsUpTo({ORD_Q, CH_LOWER_A, ORD_UPPER_A}, MaxQueryLen)

\* a window that holds an item list and a query
FilterInit ==
    /\ ClientInit
    /\ file = Absent
    /\ SaveIdle
    /\ PeerIdle
    /\ ProcIdle
    /\ ui_pc = "main"
    /\ exit_exc = "none"
    /\ mode = "search"
    /\ search_query \in FilterQueries
    /\ items \in SeqsUpTo(FilterPool, MaxItems)
    /\ filtered_items = items
    /\ current_selection = 0
    /\ typed_password = <<>>
    /\ getch = NO_KEY
    /\ status = NoStatus
    /\ shown = <<>>
    /\ clip = NoClip
    /\ redrawn = FALSE

\* _filter_items()
Filter ==
    /\ ret.op = "start"
    /\ \E r \in {FilterItems(items, search_query)} :
          /\ filtered_items' = r.filtered_items
          /\ current_selection' = r.current_selection
    /\ ret' = Ret("_filter_items", TRUE, None, "none")
    /\ UNCHANGED <<file, session_key, issuedAt, now, ticks, constructed, log,
                   spawned>>
    /\ UNCHANGED <<ui_pc, exit_exc, mode, search_query, items,
                   typed_password, getch, status, shown, clip, redrawn>>
    /\ UNCHANGED <<saveVars, peerVars, procVars>>

FilterNext == Filter

SpecFilter == FilterInit /\ [][FilterNext]_vars

(***************************************************************************)
(* copy_to_clipboard as a function of the text and of what the five        *)
(* mechanisms do on this machine.                                          *)
(***************************************************************************)
MechanismOutcomes == {"ok", "false", "oserror"}

AllClipEnvs == [DOMAIN methods -> MechanismOutcomes]

ClipTexts == {<<CH_LOWER_P>>, <<CH_QUOTE, CH_LOWER_A>>}

\* a window on which nothing has been copied yet
ClipInit ==
    /\ ClientInit
    /\ file = Absent
    /\ SaveIdle
    /\ PeerIdle
    /\ ProcIdle
    /\ UiIdle

\* copy_to_clipboard(text)
Copy(text, outs) ==
    /\ ret.op = "start"
    /\ clip' = CopyToClipboard(text, outs)
    /\ ret' = Ret("copy_to_clipboard", clip'.ok, None, "none")
    /\ UNCHANGED <<file, session_key, issuedAt, now, ticks, constructed, log,
                   spawned>>
    /\ UNCHANGED <<ui_pc, exit_exc, mode, search_query, items, filtered_items,
                   current_selection, typed_password, getch, status, shown,
                   redrawn>>
    /\ UNCHANGED <<saveVars, peerVars, procVars>>

ClipNext == \E text \in ClipTexts, outs \in AllClipEnvs : Copy(text, outs)

SpecClip == ClipInit /\ [][ClipNext]_vars

(***************************************************************************)
(* list, search and get beside a second instance: this client is built,    *)
(* asks is_unlocked and queries the vault while another bw-tui locks       *)
(* (removing the session file) or unlocks (rewriting it).  BW_SESSION may  *)
(* be exported to the process.                                             *)
(***************************************************************************)
\* get_items(override)
GetItems(override, how, its, stderr) ==
    /\ constructed
    /\ \E g \in {GetItemsResult(override, session_key, how, its, stderr)} :
         /\ ret' = Ret("get_items", g.exc = "none",
                       IF g.exc = "none" THEN Some(g.items) ELSE None, g.exc)
         /\ log' = g.log
         /\ spawned' = g.spawned
    /\ UNCHANGED <<file, session_key, issuedAt, now, ticks, constructed>>
    /\ UNCHANGED <<saveVars, peerVars, uiVars, procVars>>

\* search_items(query, override)
SearchItems(override, query, how, its) ==
    /\ constructed
    /\ \E g \in {SearchItemsResult(override, session_key, query, how, its)} :
         /\ ret' = Ret("search_items", g.exc = "none",
                       IF g.exc = "none" THEN Some(g.items) ELSE None, g.exc)
         /\ log' = <<>>
         /\ spawned' = g.spawned
    /\ UNCHANGED <<file, session_key, issuedAt, now, ticks, constructed>>
    /\ UNCHANGED <<saveVars, peerVars, uiVars, procVars>>

\* get_item(item_id, override)
GetItem(override, item_id, how, item) ==
    /\ constructed
    /\ \E g \in {GetItemResult(override, session_key, item_id, how, item)} :
         /\ ret' = Ret("get_item", g.exc = "none", g.item, g.exc)
         /\ log' = <<>>
         /\ spawned' = g.spawned
    /\ UNCHANGED <<file, session_key, issuedAt, now, ticks, constructed>>
    /\ UNCHANGED <<saveVars, peerVars, uiVars, procVars>>

\* BitwardenCLI() once: the one client of this process
Build(rm_ok) ==
    /\ ~constructed
    /\ Construct(rm_ok)

\* MainWindow._load_items on this client
WindowLoadItems(how, its, stderr) ==
    /\ constructed
    /\ ui_pc \in {"init", "main"}
    /\ UNCHANGED <<file, session_key, issuedAt, now, ticks, constructed>>
    /\ LoadItems(<<>>, <<>>, how, its, stderr)
    /\ UNCHANGED <<mode, search_query, typed_password, getch, shown, clip>>
    /\ UNCHANGED <<saveVars, peerVars, procVars>>

\* another instance locks: its clear_session removes the session file
PeerLock ==
    /\ file # Absent
    /\ file' = Absent
    /\ UNCHANGED <<session_key, issuedAt, now, ticks, constructed, ret, log,
                   spawned>>
    /\ UNCHANGED <<saveVars, peerVars, uiVars, procVars>>

\* another instance unlocks: its _save_session rewrites the session file
PeerUnlock(tok) ==
    /\ file # JsonDump(tok, now)
    /\ file' = JsonDump(tok, now)
    /\ UNCHANGED <<session_key, issuedAt, now, ticks, constructed, ret, log,
                   spawned>>
    /\ UNCHANGED <<saveVars, peerVars, uiVars, procVars>>

\* the session_key argument: omitted, empty or a token
Overrides == {None, Some(<<>>), Some(<<CH_LOWER_N>>)}
\* BW_SESSION as exported to the process, if at all
Environs == {None, Some(<<CH_UPPER_E>>)}
PeerTokens == {<<CH_LOWER_P>>}
Queries == {<<>>, <<ORD_Q>>}
ItemIds == {<<ORD_Q>>}
QueryOutcomes == {"ok", "nonzero", "badjson", "oserror"}
QueryFiles ==
    {Absent}
    \cup {JsonDump(<<CH_LOWER_A>>, StartTime - age) :
            age \in {0, SESSION_TIMEOUT}}

QueryInit ==
    /\ ClientInit
    /\ file \in QueryFiles
    /\ os_environ \in Environs
    /\ printed = <<>>
    /\ SaveIdle
    /\ PeerIdle
    /\ UiIdle

QueryExits == ListExits \cup {ListExit("oserror", <<>>, <<>>)}

QueryNext ==
    \/ \E rm_ok \in BOOLEAN : Build(rm_ok)
    \/ \E st \in StatusOutcomes : IsUnlocked(st)
    \/ \E override \in Overrides, e \in QueryExits :
            GetItems(override, e.how, e.items, e.stderr)
    \/ \E e \in ListExits : WindowLoadItems(e.how, e.items, e.stderr)
    \/ \E override \in Overrides, query \in Queries, e \in QueryExits :
            SearchItems(override, query, e.how, e.items)
    \/ \E override \in Overrides, item_id \in ItemIds, how \in QueryOutcomes :
            GetItem(override, item_id, how, ItemA)
    \/ PeerLock
    \/ \E tok \in PeerTokens : PeerUnlock(tok)

SpecQuery == QueryInit /\ [][QueryNext]_vars

(***************************************************************************)
(* Properties of the session store and of the client.                      *)
(***************************************************************************)
Logged(msg) == \E i \in DOMAIN log : log[i].msg = msg

LoadOps == {"__init__", "_load_session"}

\* the step is a load of the session file
LoadStep == \E rm_ok \in BOOLEAN : Construct(rm_ok) \/ Reload(rm_ok)

\* C1: after any call of lock(), with `bw lock` exiting zero or non-zero,
\* the cached key is unset and a load of the session file yields no session
\* (a removal the file system refuses is set aside).
C1_LockDropsSession ==
    (ret.op = "lock" /\ ~Logged("Failed to cleanup session file: %s"))
    => /\ session_key = None
       /\ \A rm_ok \in BOOLEAN :
            ~Truthy(LoadSession(file, None, 0, now, rm_ok).key)

\* C2: no log record of an unlock call holds the (non-empty) master
\* password, whether `bw unlock` exits zero or non-zero.
C2_PasswordNeverLogged ==
    ret.op = "unlock"
    => LET password == spawned[1].argv[3].txt
       IN password # <<>>
          => \A i \in DOMAIN log : \A j \in DOMAIN log[i].args :
                log[i].args[j] # Txt(password)

\* the step is _handle_input with the key ch
HandleInputStep(ch) ==
    getch' = ch /\ \E p \in LockExits, rm_ok \in BOOLEAN, outs \in ClipEnvs :
        HandleInput(ch, p, rm_ok, outs)

\* C3: in Search mode every printable key (codes 32..126), the keys that in
\* Browse mode mean quit, enter-search, copy and lock included, is appended
\* to the query and the filter is recomputed, and the key does nothing else:
\* no quit, no lock call, no clipboard delivery, no mode change.
C3_SearchConsumesPrintables ==
    [][\A ch \in {k \in LoopKeys : Printable(k)} :
          (mode = "search" /\ HandleInputStep(ch))
          => /\ search_query' = Append(search_query, ch)
             /\ filtered_items'
                  = FilterItems(items, search_query').filtered_items
             /\ mode' = "search"
             /\ ui_pc' = "main"
             /\ spawned' = <<>>
             /\ clip'.tried = <<>>]_vars

\* C4: constructing the client over a stored record {session_key,
\* timestamp} caches no key when now - timestamp >= SESSION_TIMEOUT, whatever
\* the key; it caches a key only if now - timestamp < SESSION_TIMEOUT and the
\* stored key is non-empty, and then it is the stored key.
C4_LoadHonoursTTL ==
    [][(/\ \E rm_ok \in BOOLEAN : Construct(rm_ok)
        /\ file.kind = "object"
        /\ file.tsKind \in {"missing", "number"})
       => /\ now - GetTimestamp(file) >= SESSION_TIMEOUT
                => session_key' = None
          /\ session_key' # None
                => /\ now - GetTimestamp(file) < SESSION_TIMEOUT
                   /\ file.skKind = "string"
                   /\ session_key' = Some(JsonUnescape(file.sk).val)
                   /\ session_key'.val # <<>>]_vars

\* C4's case: a record exactly SESSION_TIMEOUT old with a non-empty key was
\* loaded and found expired (and is still there, its removal having failed).
C4_Witness ==
    /\ ret.op = "__init__"
    /\ Logged("Session expired or invalid, will require login")
    /\ file.kind = "object"
    /\ file.skKind = "string"
    /\ file.sk # <<>>
    /\ now - file.ts = SESSION_TIMEOUT
    /\ session_key = None

\* C5: whatever the session file holds, constructing the client raises
\* nothing, and when no session is cached the file is gone (unless its
\* removal failed).
C5_LoadNeverRaises ==
    ret.op = "__init__"
    => /\ ret.exc = "none"
       /\ (session_key = None
           /\ ~Logged("Failed to cleanup session file: %s"))
          => file.kind = "absent"

\* the last call was an unlock that saved its token to the session file
SavedOk == ret.op = "unlock" /\ Logged("Session saved to file")

\* C6: when an unlock has saved a (non-empty) token and the session file is
\* loaded next, less than SESSION_TIMEOUT after the save, by a new client or
\* by the same one, the cached key is the saved token.
C6_SaveThenLoad ==
    [][(SavedOk /\ LoadStep /\ now - file.ts < SESSION_TIMEOUT)
       => (session_key' = ret.val /\ Truthy(session_key'))]_vars

\* C6's case: a new client has loaded a token holding a quote from a file
\* that was written after the clock had advanced.
C6_Witness ==
    /\ ret.op = "__init__"
    /\ file.kind = "object"
    /\ file.ts > StartTime
    /\ session_key = Some(<<CH_QUOTE>>)

\* C8: the is_unlocked call that follows an unlock which returned a token
\* returns true and runs no subprocess.
C8_UnlockThenShortCircuit ==
    [][(/\ ret.op = "unlock"
        /\ ret.ok
        /\ \E st \in StatusOutcomes : IsUnlocked(st))
       => (ret'.ok /\ spawned' = <<>>)]_vars

\* C9: an is_unlocked call made when the cached key is SESSION_TIMEOUT old or
\* older does not short-circuit: it runs the status query.
C9_CachedKeyExpires ==
    [][(/\ \E st \in StatusOutcomes : IsUnlocked(st)
        /\ Truthy(session_key)
        /\ now - issuedAt >= SESSION_TIMEOUT)
       => spawned' # <<>>]_vars

\* C10: an unlock that got a non-empty token and could not write the session
\* file returns the token, raises nothing and has the token cached.
C10_SaveFailureKeepsKey ==
    (/\ ret.op = "unlock"
     /\ ret.ok
     /\ Logged("Failed to save session file: %s"))
    => /\ ret.exc = "none"
       /\ ret.val = Some(Strip(ret.val.val))
       /\ session_key = ret.val

\* C7: a load that runs while a save is written reads a whole record (the
\* previous one or the new one) or finds no file, never an empty or partial
\* file; and once both are over, a save that succeeded has its record on disk
\* unless the load judged a whole record stale.
C7_ReaderSeesWholeRecord ==
    /\ rseen.kind \in {"absent", "object"}
    /\ (wpc = "done" /\ rpc = "done" /\ Logged("Session saved to file")
        /\ rseen.kind # "object")
       => file = JsonDump(wdata.tok, wdata.ts)

\* the step is a call of unlock
UnlockStep ==
    \E password \in Passwords, p \in UnlockExits, io \in IoOutcomes :
        Unlock(password, p.rc, p.stdout, p.stderr, io)

\* C11: an unlock that yields no token (`bw unlock` exits non-zero, or exits
\* zero with nothing but white space on stdout) returns None and leaves the
\* cached key and the session file as they were.
C11_FailedUnlockReturnsNone ==
    [][(UnlockStep /\ ~ret'.ok)
       => /\ ret'.val = None
          /\ session_key' = session_key
          /\ file' = file]_vars

\* C12: the lock key calls the client's lock, sets a status and ends the
\* loop, whether `bw lock` exits zero or non-zero: no key is read after it.
C12_LockKeyEndsLoop ==
    [][HandleInputStep(ORD_L)
       => /\ ret'.op = "lock"
          /\ spawned' = <<Proc(<<bw_path, Lit("lock")>>, None)>>
          /\ status'.message # ""
          /\ ui_pc' = "exited"]_vars

(***************************************************************************)
(* Properties of the window.                                               *)
(***************************************************************************)
\* two characters that are equal up to the case of a letter
SameIgnoringCase(a, b) ==
    \/ a = b
    \/ a >= ORD_UPPER_A /\ a <= ORD_UPPER_Z /\ b = a + CASE_OFFSET
    \/ b >= ORD_UPPER_A /\ b <= ORD_UPPER_Z /\ a = b + CASE_OFFSET

\* sub occurs in s, case set aside
ContainsIgnoringCase(s, sub) ==
    \E i \in 0..(Len(s) - Len(sub)) :
        \A j \in 1..Len(sub) : SameIgnoringCase(s[i + j], sub[j])

\* the item's name or its login's username contains the query
NameOrUsernameContains(item, query) ==
    \/ item.nameKind = "string" /\ ContainsIgnoringCase(item.name, query)
    \/ /\ item.hasLogin
       /\ item.username.some
       /\ ContainsIgnoringCase(item.username.val, query)

\* the items of its, in their order, that the query selects
Selected(its, query) ==
    IF query = <<>> THEN its
    ELSE SelectSeq(its, LAMBDA item : NameOrUsernameContains(item, query))

\* C13: in every state of the loop (after the first load and after any keys)
\* filtered_items is the subsequence of items, in their order, whose name or
\* username contains search_query with case set aside, and is items itself
\* when the query is empty.
C13_FilteredIsSelection ==
    ui_pc = "main" => filtered_items = Selected(items, search_query)

\* C13's case: the query "qA" has been typed and has left, of four items,
\* the one whose name is "qa".
C13_Witness ==
    /\ ui_pc = "main"
    /\ mode = "search"
    /\ search_query = <<ORD_Q, ORD_UPPER_A>>
    /\ Len(items) = 4
    /\ filtered_items = <<ItemQ>>

\* C14: after any moves up and down, query edits, cancel keys and filter
\* recomputations, the selection is an index of the filtered list whenever
\* that list is not empty, and what the copy key delivers is the password of
\* the item at that index of the filtered list.
C14_SelectionInRange ==
    (ui_pc = "main" /\ filtered_items # <<>>)
    => /\ current_selection \in 0..(Len(filtered_items) - 1)
       /\ clip.ok
            => filtered_items[current_selection + 1].password
                 = Some(clip.text)

\* C14's case: the down key has been pressed and the selection is at the
\* last of four items.
C14_Witness ==
    /\ ui_pc = "main"
    /\ getch = KEY_DOWN
    /\ Len(filtered_items) = 4
    /\ current_selection = 3

\* C15: for every item list and every non-empty query, _filter_items keeps an
\* item iff the query occurs, case set aside, in the item's name or in its
\* login's username; an item without login, with a null or missing name or
\* with a null username is matched on what it has.
C15_FilterKeepsMatches ==
    (ret.op = "_filter_items" /\ search_query # <<>>)
    => \A i \in DOMAIN items :
         (\E j \in DOMAIN filtered_items : filtered_items[j] = items[i])
         <=> NameOrUsernameContains(items[i], search_query)

\* C15's case: the query "q" has kept an item with a null name for its
\* username "Q" and dropped an item that has a name and no login.
C15_Witness ==
    /\ ret.op = "_filter_items"
    /\ search_query = <<ORD_Q>>
    /\ items = <<ItemOf("null", <<>>, TRUE, Some(<<ORD_Q - CASE_OFFSET>>),
                        None),
                 ItemOf("string", <<ORD_UPPER_A>>, FALSE, None, None)>>
    /\ filtered_items = <<items[1]>>

\* the least position of a mechanism that works, 0 if none does
FirstWorking(outs) ==
    LET ok == {i \in DOMAIN outs : outs[i] = "ok"}
    IN IF ok = {} THEN 0 ELSE CHOOSE i \in ok : \A j \in ok : i <= j

\* C16: delivery calls the mechanisms in the order pyperclip, xclip, xsel,
\* wl-copy, termux-clipboard-set; it returns true at the first that works and
\* calls none after it: the number of calls is the position of that one.
C16_StopsAtFirstSuccess ==
    (ret.op = "copy_to_clipboard" /\ FirstWorking(clip.outs) # 0)
    => /\ clip.ok
       /\ ret.ok
       /\ Len(clip.tried) = FirstWorking(clip.outs)
       /\ clip.tried
            = SubSeq(<<"_try_pyperclip", "_try_xclip", "_try_xsel",
                       "_try_wl_copy", "_try_termux_clipboard">>,
                     1, FirstWorking(clip.outs))

\* C16's case: the third mechanism is the first that works, the fifth does
\* not work, and three have been called.
C16_Witness ==
    /\ ret.op = "copy_to_clipboard"
    /\ FirstWorking(clip.outs) = 3
    /\ clip.outs[5] # "ok"
    /\ clip.outs[1] # clip.outs[2]
    /\ Len(clip.tried) = 3
    /\ clip.ok

\* C17: delivery returns false iff none of the five mechanisms works; a
\* mechanism that returns False or raises OSError is followed by the next
\* one, and nothing is raised to the caller.
C17_FalseIffAllFail ==
    ret.op = "copy_to_clipboard"
    => /\ ret.exc = "none"
       /\ ~clip.ok <=> \A i \in DOMAIN clip.outs : clip.outs[i] # "ok"
       /\ ~clip.ok => Len(clip.tried) = Len(clip.outs)
       /\ \A i \in DOMAIN clip.tried :
            (i < Len(clip.tried) \/ ~clip.ok) => clip.outs[i] # "ok"

\* C17's case: all five mechanisms have been called, some returned False
\* and some raised, and delivery returned false.
C17_Witness ==
    /\ ret.op = "copy_to_clipboard"
    /\ ~ret.ok
    /\ Len(clip.tried) = 5
    /\ clip.outs[1] = "oserror"
    /\ clip.outs[2] = "false"
    /\ clip.outs[5] = "oserror"

\* a message whose STATUS_SECONDS are over is still set, and the last poll
\* returned no key
ExpiredStatusWhileIdle ==
    /\ ui_pc = "main"
    /\ getch = NO_KEY
    /\ status.message # ""
    /\ now - status.time > STATUS_SECONDS

\* C18: a status message set in the loop is cleared in the end, once its
\* STATUS_SECONDS are over, even if no key is pressed any more: the polls
\* that return without a key lead to the expiry check, so the loop does not
\* stay for ever polling without a key with the expired message still set.
C18_StatusExpiresWithoutKeys == []<>(~ExpiredStatusWhileIdle)

\* the subprocesses of ps that ran `bw <sub>`
Ran(ps, sub) == {i \in DOMAIN ps : ps[i].argv[2] = Lit(sub)}

\* is_unlocked has been called in the step and has answered b
AnsweredUnlocked(b) ==
    IF b
    THEN \E i \in DOMAIN log' :
            \/ log'[i].msg = "Using saved session key for unlock check"
            \/ log'[i] = Rec("debug", "Is unlocked: %s", <<Lit("True")>>)
    ELSE \E i \in DOMAIN log' :
            \/ log'[i] = Rec("debug", "Is unlocked: %s", <<Lit("False")>>)
            \/ log'[i].msg = "Error checking unlock status: %s"

C20_LoggedInNeverRaises ==
    ret.op = "is_logged_in"
    => /\ ret.exc = "none"
       /\ ret.ok <=> \E st \in {"locked", "unlocked"} :
                        \E i \in DOMAIN log :
                          log[i] = Rec("debug", "Login status: %s",
                                       <<Lit(st)>>)

(***************************************************************************)
(* Properties of list, search and get.                                     *)
(***************************************************************************)
QueryOps == {"get_items", "search_items", "get_item"}
FailedQueries == {"nonzero", "badjson"}

\* the step is a list, search or get whose tool exits non-zero or prints
\* something that is not JSON
FailedQueryStep ==
    \/ /\ ret'.op = "get_items"
       /\ \E override \in Overrides, how \in FailedQueries, stderr \in Stderrs :
            GetItems(override, how, <<>>, stderr)
    \/ /\ ret'.op = "search_items"
       /\ \E override \in Overrides, how \in FailedQueries, query \in Queries :
            SearchItems(override, query, how, <<>>)
    \/ /\ ret'.op = "get_item"
       /\ \E override \in Overrides, how \in FailedQueries, item_id \in ItemIds :
            GetItem(override, item_id, how, ItemA)

\* the step is a _load_items whose get_items meets such a failure
FailedWindowLoadStep ==
    /\ ret'.op = "get_items"
    /\ \E how \in FailedQueries, stderr \in Stderrs :
         WindowLoadItems(how, <<>>, stderr)

\* C21: a list, search or get whose tool exits non-zero or prints unparseable
\* JSON raises nothing, returns the empty list (list, search) or None (get)
\* and leaves the cached key and the session file as they were; a window
\* that loads its items through such a call has an empty item list and an
\* empty filtered list, and is in its loop.
C21_FailedQueryIsEmpty ==
    [][/\ FailedQueryStep =>
            /\ ret'.exc = "none"
            /\ ret'.val = IF ret'.op = "get_item" THEN None ELSE Some(<<>>)
            /\ UNCHANGED <<file, session_key, issuedAt>>
       /\ FailedWindowLoadStep =>
            /\ items' = <<>>
            /\ filtered_items' = <<>>
            /\ ui_pc' = "main"
            /\ exit_exc' = "none"
            /\ UNCHANGED <<file, session_key, issuedAt>>]_vars

\* a get with a key cached found nothing to parse or a non-zero exit, and
\* answered None
C21_Witness ==
    /\ ret.op = "get_item"
    /\ ret.exc = "none"
    /\ ret.val = None
    /\ spawned # <<>>
    /\ Truthy(session_key)

\* the step is a list, search or get called with the argument override (the
\* window's _load_items calls get_items without one)
QueryStep(override) ==
    \/ /\ ret'.op = "get_items"
       /\ \/ \E e \in QueryExits :
                GetItems(override, e.how, e.items, e.stderr)
          \/ /\ override = None
             /\ \E e \in ListExits : WindowLoadItems(e.how, e.items, e.stderr)
    \/ /\ ret'.op = "search_items"
       /\ \E query \in Queries, e \in QueryExits :
            SearchItems(override, query, e.how, e.items)
    \/ /\ ret'.op = "get_item"
       /\ \E item_id \in ItemIds, how \in QueryOutcomes :
            GetItem(override, item_id, how, ItemA)

\* one subprocess was run, with BW_SESSION as given in its environment, no
\* piece of its command line being the argument or the cached key, and
\* os.environ is as it was
RanWithSession(override, bw_session) ==
    /\ Len(spawned') = 1
    /\ spawned'[1].bw_session = bw_session
    /\ \A i \in DOMAIN spawned'[1].argv :
         /\ Truthy(override) => spawned'[1].argv[i] # Txt(override.val)
         /\ Truthy(session_key) => spawned'[1].argv[i] # Txt(session_key.val)
    /\ os_environ' = os_environ

\* C22 as stated: in every list, search and get the subprocess is given the
\* session_key argument if one is passed, else the cached key, else no
\* token; the token is in BW_SESSION of the subprocess's environment and in
\* no command-line argument, and os.environ is not modified.
C22_OverrideElseCachedElseNone ==
    [][\A override \in Overrides :
          QueryStep(override) =>
              RanWithSession(override,
                             IF override # None THEN override
                             ELSE IF Truthy(session_key) THEN session_key
                             ELSE None)]_vars

\* C22, amended: in every list, search and get, BW_SESSION of the subprocess
\* is the session_key argument if it is a non-empty string, else the cached
\* key if there is one, else what the process's own environment holds (no
\* token if it holds none); the token is in no command-line argument, and
\* os.environ is not modified.
C22_TruthyOverrideElseCachedElseInherited ==
    [][\A override \in Overrides :
          QueryStep(override) =>
              RanWithSession(override,
                             IF Truthy(override) THEN override
                             ELSE IF Truthy(session_key) THEN session_key
                             ELSE os_environ)]_vars

\* a search with a key cached and another token as argument ran with the
\* argument
C22_Witness ==
    /\ ret.op = "search_items"
    /\ Truthy(session_key)
    /\ Len(spawned) = 1
    /\ spawned[1].bw_session = Some(<<CH_LOWER_N>>)
    /\ spawned[1].bw_session # session_key

(***************************************************************************)
(* Properties of the start of the program.                                 *)
(***************************************************************************)
\* the window exists: run() is at is_unlocked, at the prompt or in the loop
InWindow == ui_pc \in {"run", "unlock", "main"}

\* the step is BwTuiApp.run with check_cli_available answering avail and
\* `bw status` answering st
AppRunStep(avail, st) ==
    /\ ui_pc = "init"
    /\ \E rm_ok \in BOOLEAN : AppRun(rm_ok, avail, st)

\* the password prompt was never shown and no item was ever loaded: nothing
\* was asked of `bw unlock` or `bw list`, the window's fields are as built
NeverPromptedNorLoaded ==
    /\ mode = "browse"
    /\ items = <<>>
    /\ filtered_items = <<>>
    /\ typed_password = <<>>
    /\ \A i \in DOMAIN spawned : spawned[i].argv = <<bw_path, Lit("status")>>

\* C23: the window is created only by a start that found the tool available
\* and `bw status` answering locked or unlocked; a start where the tool is
\* missing prints the "not available" lines, one where the status query
\* says anything else prints the "not logged in" lines, and both end the
\* process with exit code 1, no password having been asked for and no item
\* loaded, then or later.
C23_WindowOnlyAfterChecks ==
    [][/\ (~InWindow /\ InWindow') =>
            \E st \in {"locked", "unlocked"} : AppRunStep(TRUE, st)
       /\ \A avail \in BOOLEAN, st \in StatusOutcomes :
            (/\ AppRunStep(avail, st)
             /\ constructed'
             /\ ~avail \/ st \in {"unauthenticated", "nonzero", "badjson"}) =>
                /\ ui_pc' = "exited"
                /\ ExitCode(exit_exc') = 1
                /\ printed' = IF ~avail THEN NotAvailable ELSE NotLoggedIn
                /\ NeverPromptedNorLoaded'
       /\ ui_pc = "exited" =>
            /\ ui_pc' = "exited"
            /\ UNCHANGED <<mode, items, filtered_items, typed_password,
                           spawned, printed>>]_vars

\* a start that found the tool but no login has ended the process
C23_Witness ==
    /\ ui_pc = "exited"
    /\ constructed
    /\ ret.op = "is_logged_in"
    /\ ~ret.ok
    /\ printed = NotLoggedIn
    /\ ExitCode(exit_exc) = 1

(***************************************************************************)
(* Properties of a client beside another instance.                         *)
(***************************************************************************)
\* the step is another instance removing or rewriting the session file
PeerStep == PeerLock \/ \E tok \in PeerTokens : PeerUnlock(tok)

\* the step is is_unlocked()
IsUnlockedStep ==
    /\ ret'.op = "is_unlocked"
    /\ \E st \in StatusOutcomes : IsUnlocked(st)

\* C24: a client that was built keeps the key it loaded whatever another
\* instance does to the session file; while it holds a key, is_unlocked
\* answers True without asking anything, and list, search and get called
\* without an override attach that key, whether the file still exists,
\* holds that key or holds another one.
C24_MemoryOverStorage ==
    [][/\ constructed => session_key' = session_key
       /\ (IsUnlockedStep /\ Truthy(session_key)) =>
            /\ ret'.ok
            /\ ret'.exc = "none"
            /\ spawned' = <<>>
       /\ (QueryStep(None) /\ Truthy(session_key)) =>
            /\ Len(spawned') = 1
            /\ spawned'[1].bw_session = session_key]_vars

\* the file was rewritten by another instance with another token, and this
\* client's last list ran with the key it had loaded
C24_Witness ==
    /\ constructed
    /\ Truthy(session_key)
    /\ file.kind = "object"
    /\ GetSessionKey(JsonLoad(file).obj) # session_key
    /\ ret.op = "get_items"
    /\ Len(spawned) = 1
    /\ spawned[1].bw_session = session_key

(***************************************************************************)
(* Properties of the keys of the loop.                                     *)
(***************************************************************************)
\* the step is _handle_input with the key ch, any key but the lock key; what
\* the clipboard mechanisms did is read from the clipboard call of the step,
\* if there was one
PlainKeyStep(ch) ==
    /\ getch' = ch
    /\ ch # ORD_L
    /\ HandleInput(ch, Exited(0, <<>>, <<>>), TRUE,
                   IF clip' = NoClip THEN ClipAllOk ELSE clip'.outs)

\* the keys that move the selection or copy
SelectionKeys == {KEY_UP, KEY_DOWN} \cup CopyKeys

\* C25: with an empty filtered list the up, down and copy keys (c, Enter,
\* LF) change neither the selection, the query, the mode, the item list nor
\* the filtered list; the clipboard is not called, no status is shown or
\* set (a status message that was set stays or, if expired, is cleared by
\* the redraw), and the loop goes on with the session as it was.
C25_EmptyListKeysAreNoOps ==
    [][\A ch \in SelectionKeys :
          (filtered_items = <<>> /\ PlainKeyStep(ch)) =>
              /\ UNCHANGED <<current_selection, search_query, mode, items,
                             filtered_items>>
              /\ clip' = NoClip
              /\ shown' = <<>>
              /\ status' \in {status, NoStatus}
              /\ ui_pc' = "main"
              /\ UNCHANGED <<file, session_key, issuedAt>>]_vars

\* a copy key was pressed while a query matched no item of a loaded list
C25_Witness ==
    /\ ui_pc = "main"
    /\ getch \in CopyKeys
    /\ items # <<>>
    /\ filtered_items = <<>>
    /\ search_query # <<>>
    /\ clip = NoClip
    /\ shown = <<>>
    /\ redrawn

\* the item under the selection
SelectedItem == filtered_items[current_selection + 1]

\* the item under the selection has a login with a non-empty password
HasPassword ==
    /\ SelectedItem.hasLogin
    /\ SelectedItem.password.some
    /\ SelectedItem.password.val # <<>>

\* C26: on a copy key (c, Enter, LF) with a non-empty filtered list,
\* copy_to_clipboard is called, once and with the selected item's password,
\* exactly when that item has a login with a non-empty password; exactly
\* one status is shown, in the success colour exactly when the call was
\* made and returned True, in the error colour when it returned False and
\* when the item has no password.
C26_CopyDeliversSelectedPassword ==
    [][\A ch \in CopyKeys :
          (filtered_items # <<>> /\ PlainKeyStep(ch)) =>
              /\ (clip' # NoClip) = HasPassword
              /\ HasPassword =>
                    /\ clip'.text = SelectedItem.password.val
                    /\ clip'.tried # <<>>
              /\ Len(shown') = 1
              /\ (shown'[1].color = COLOR_SUCCESS) = (HasPassword /\ clip'.ok)
              /\ (shown'[1].color = COLOR_ERROR)
                    = (~HasPassword \/ ~clip'.ok)]_vars

\* a copy key on an item with a password whose delivery failed on every
\* mechanism showed an error
C26_Witness ==
    /\ ui_pc = "main"
    /\ getch \in CopyKeys
    /\ filtered_items # <<>>
    /\ HasPassword
    /\ clip # NoClip
    /\ ~clip.ok
    /\ Len(shown) = 1
    /\ shown[1].color = COLOR_ERROR

\* C27: a copy key whose delivery was tried and failed on every mechanism
\* leaves the mode, the query, the item list, the filtered list, the
\* selection, the cached key and the session file as they were, and the
\* loop goes on; what it shows is one error status.
C27_FailedCopyChangesNothing ==
    [][\A ch \in CopyKeys :
          (PlainKeyStep(ch) /\ clip' # NoClip /\ ~clip'.ok) =>
              /\ UNCHANGED <<mode, search_query, items, filtered_items,
                             current_selection>>
              /\ UNCHANGED <<session_key, issuedAt, file>>
              /\ ui_pc' = "main"
              /\ exit_exc' = "none"
              /\ Len(shown') = 1
              /\ shown'[1].color = COLOR_ERROR]_vars

\* in Search mode, with a query typed and a key cached, a copy key tried the
\* five mechanisms in vain
C27_Witness ==
    /\ ui_pc = "main"
    /\ getch \in CopyKeys
    /\ clip # NoClip
    /\ ~clip.ok
    /\ Len(clip.tried) = Len(methods)
    /\ Truthy(session_key)
    /\ file # Absent
    /\ mode = "search"
    /\ search_query # <<>>

\* C28: the cancel key (ESC), in Browse and in Search mode and whatever the
\* query, leaves the query empty, the mode Browse and the filtered list
\* equal to the item list, which it does not change; the loop goes on, the
\* client is not called, and the cached key and the session file are as
\* they were.
C28_CancelResetsSearch ==
    [][PlainKeyStep(KEY_ESC) =>
          /\ search_query' = <<>>
          /\ mode' = "browse"
          /\ items' = items
          /\ filtered_items' = items
          /\ ui_pc' = "main"
          /\ exit_exc' = "none"
          /\ ret' = NoCall
          /\ spawned' = <<>>
          /\ UNCHANGED <<session_key, issuedAt, file>>]_vars

\* the cancel key was the last key of a loop that has items and a cached
\* key
C28_Witness ==
    /\ ui_pc = "main"
    /\ getch = KEY_ESC
    /\ mode = "browse"
    /\ search_query = <<>>
    /\ items # <<>>
    /\ filtered_items = items
    /\ Truthy(session_key)
    /\ redrawn

\* C29: in every state of the program, the query is empty unless the mode
\* is Search, and the filtered list is the item list unless the mode is
\* Search and the query is not empty.
C29_QueryOnlyInSearch ==
    /\ mode # "search" => search_query = <<>>
    /\ filtered_items # items => (mode = "search" /\ search_query # <<>>)

\* a printable key pressed in Browse mode, after a search was cancelled or
\* before any, left the query empty and the list whole
C29_Witness ==
    /\ ui_pc = "main"
    /\ mode = "browse"
    /\ getch = ORD_UPPER_A
    /\ items # <<>>
    /\ search_query = <<>>
    /\ filtered_items = items

(***************************************************************************)
(* Properties of the cached key against the session file.                  *)
(***************************************************************************)
\* the session file exists, parses and holds the key
FileHolds(key) ==
    /\ file.kind = "object"
    /\ JsonLoad(file).ok
    /\ GetSessionKey(JsonLoad(file).obj) = key

\* C30: in every state of a single client, whatever the sequence of loads,
\* unlocks (failing or not, saved or not), locks and clears, a cached key
\* means that the session file exists and holds exactly that key.
C30_CachedKeyIsOnFile == session_key # None => FileHolds(session_key)

(***************************************************************************)
(* Properties of the selection across filter recomputations.               *)
(***************************************************************************)
\* the step is a key of the loop that recomputes the filter: the cancel key
\* in any mode, and in Search mode backspace (on an empty query too) and
\* every key that was appended to the query
RefilterStep ==
    /\ \/ getch' = KEY_ESC
       \/ mode = "search" /\ getch' \in {KEY_BACKSPACE, KEY_DEL}
       \/ search_query' = Append(search_query, getch')
    /\ PlainKeyStep(getch')

\* the step is the up or the down key
MoveStep == PlainKeyStep(KEY_UP) \/ PlainKeyStep(KEY_DOWN)

\* C31: every key that recomputes the filter (an appended character, a
\* backspace in Search mode even on an empty query, the cancel key even in
\* Browse mode with an empty query) leaves the selection at index 0,
\* wherever it was and whether or not the item it was on is still listed;
\* and the selection moves to an index other than 0 by the up and down
\* keys alone.
C31_RefilterSelectsFirst ==
    [][/\ RefilterStep => current_selection' = 0
       /\ (current_selection' # current_selection /\ current_selection' # 0)
            => MoveStep]_vars

\* a backspace in Search mode has left a list of several items, the
\* selection on the first
C31_Witness ==
    /\ ui_pc = "main"
    /\ mode = "search"
    /\ getch \in {KEY_BACKSPACE, KEY_DEL}
    /\ Len(filtered_items) > 1
    /\ current_selection = 0
    /\ redrawn

====
